---------------------------- MODULE Spec2Model ----------------------------
(***************************************************************************)
(* A model of the gzip decompressor of lehahel/rust-gzip-decompressor:     *)
(* the bit reader (bit_reader.rs), the canonical Huffman table and its     *)
(* symbol reader (huffman_coding.rs), the tracking writer with its window  *)
(* (tracking_writer.rs), the block dispatcher (deflate.rs), the member     *)
(* header and footer (gzip.rs) and the driver loop (lib.rs).               *)
(*                                                                         *)
(* Each component has a specification of its own over the same variables:  *)
(*   SpecBitReader  read_bits / borrow_reader_from_boundary on byte inputs *)
(*   SpecHuffman    from_lengths then read_symbol on encoded symbols       *)
(*   SpecWriter     write / write_previous / a new writer per member       *)
(*   Spec           decompress on whole gzip inputs                        *)
(*   SpecLarge      decompress resumed inside a member of 2^32 bytes       *)
(***************************************************************************)
EXTENDS Integers, Sequences, FiniteSets, TLC

VARIABLES
    stream,         \* the byte source: every byte of the input, in order
    pos,            \* how many bytes of stream the source has handed out
    buffer,         \* BitReader.buffer, a BitSequence
    data_left,      \* DeflateReader.data_left
    trees,          \* the (litlen_tree, dist_tree) pair of the current block
    inner,          \* TrackingWriter.inner: the sink, [bytes, room]
    buf,            \* TrackingWriter.buf: the window
    bytes_counter,  \* TrackingWriter.bytes_counter
    crc_digest,     \* TrackingWriter.crc_digest: the CRC-32 register
    pc,             \* where decompress (or the harness) stands
    result,         \* "running", "Ok", "Err" or "Panic"
    ev,             \* the last operation with its arguments and outcome
    meta            \* what the scenario's input was built from

vars == <<stream, pos, buffer, data_left, trees, inner, buf, bytes_counter,
          crc_digest, pc, result, ev, meta>>

(***************************************************************************)
(* Integer helpers. Rust's u16/u32 operations are spelled out on naturals. *)
(***************************************************************************)
RECURSIVE Pow2(_)
Pow2(n) == IF n = 0 THEN 1 ELSE 2 * Pow2(n - 1)

Min(a, b) == IF a <= b THEN a ELSE b

RECURSIVE BitXor(_, _)
BitXor(a, b) ==
    IF a = 0 THEN b
    ELSE IF b = 0 THEN a
    ELSE (((a % 2) + (b % 2)) % 2) + 2 * BitXor(a \div 2, b \div 2)

RECURSIVE BitAnd(_, _)
BitAnd(a, b) ==
    IF a = 0 \/ b = 0 THEN 0
    ELSE ((a % 2) * (b % 2)) + 2 * BitAnd(a \div 2, b \div 2)

BitOf(x, k) == (x \div Pow2(k)) % 2

RECURSIVE SeqSum(_)
SeqSum(s) == IF s = <<>> THEN 0 ELSE Head(s) + SeqSum(Tail(s))

RECURSIVE Flatten(_)
Flatten(ss) == IF ss = <<>> THEN <<>> ELSE Head(ss) \o Flatten(Tail(ss))

(***************************************************************************)
(* bit_reader.rs: BitSequence                                              *)
(***************************************************************************)
U16 == 65536

EmptyBits == [bits |-> 0, len |-> 0]

\* BitSequence::new: the low len bits of bits
BitSequenceNew(bits, len) == [bits |-> bits % Pow2(len), len |-> len]

\* a.concat(b): b goes above a. More than 16 bits is a panic, which the
\* callers below never reach; the u16 shift drops what leaves the word.
Concat(a, b) ==
    [bits |-> ((b.bits * Pow2(a.len)) % U16) + a.bits, len |-> a.len + b.len]

(***************************************************************************)
(* bit_reader.rs: BitReader over the byte source (stream, pos)             *)
(***************************************************************************)
\* read_u8 on the source: one byte, or UnexpectedEof with nothing consumed
ReadU8(s, p) ==
    IF p < Len(s) THEN [ok |-> TRUE, val |-> s[p + 1], pos |-> p + 1]
    ELSE [ok |-> FALSE, val |-> 0, pos |-> p]

\* read_bits without `self.buffer.bits >>= len`: the bits handed out stay in
\* the buffer
RECURSIVE ReadBitsLoopNoShift(_, _, _, _, _)
ReadBitsLoopNoShift(s, p, b, len, res) ==
    IF len = 0 THEN [ok |-> TRUE, val |-> res, pos |-> p, buffer |-> b]
    ELSE IF len <= b.len THEN
        [ok     |-> TRUE,
         val    |-> Concat(res, BitSequenceNew(b.bits % Pow2(len), len)),
         pos    |-> p,
         buffer |-> [bits |-> b.bits % Pow2(b.len - len), len |-> b.len - len]]
    ELSE IF ~ReadU8(s, p).ok THEN
        [ok |-> FALSE, val |-> res, pos |-> p, buffer |-> b]
    ELSE ReadBitsLoopNoShift(s, p + 1, BitSequenceNew(ReadU8(s, p).val, 8),
                             len - b.len, Concat(res, b))

\* read_bits with `len < self.buffer.len()` for `len <= self.buffer.len()`:
\* a request for exactly the buffered bits takes one more byte
RECURSIVE ReadBitsLoopEager(_, _, _, _, _)
ReadBitsLoopEager(s, p, b, len, res) ==
    IF len = 0 THEN [ok |-> TRUE, val |-> res, pos |-> p, buffer |-> b]
    ELSE IF len < b.len THEN
        [ok     |-> TRUE,
         val    |-> Concat(res, BitSequenceNew(b.bits % Pow2(len), len)),
         pos    |-> p,
         buffer |-> [bits |-> b.bits \div Pow2(len), len |-> b.len - len]]
    ELSE IF ~ReadU8(s, p).ok THEN
        [ok |-> FALSE, val |-> res, pos |-> p, buffer |-> b]
    ELSE ReadBitsLoopEager(s, p + 1, BitSequenceNew(ReadU8(s, p).val, 8),
                           len - b.len, Concat(res, b))

\* the while loop of read_bits; len is what is still wanted, res what has
\* been gathered. An Err leaves the reader as the failing iteration found it.
RECURSIVE ReadBitsLoop(_, _, _, _, _)
ReadBitsLoop(s, p, b, len, res) ==
    IF len = 0 THEN [ok |-> TRUE, val |-> res, pos |-> p, buffer |-> b]
    ELSE IF len <= b.len THEN
        [ok     |-> TRUE,
         val    |-> Concat(res, BitSequenceNew(b.bits % Pow2(len), len)),
         pos    |-> p,
         buffer |-> [bits |-> b.bits \div Pow2(len), len |-> b.len - len]]
    ELSE IF ~ReadU8(s, p).ok THEN
        [ok |-> FALSE, val |-> res, pos |-> p, buffer |-> b]
    ELSE ReadBitsLoop(s, p + 1, BitSequenceNew(ReadU8(s, p).val, 8),
                      len - b.len, Concat(res, b))

\* BitReader::read_bits(len) on the reader (p, b) over source s
read_bits(s, p, b, len) == ReadBitsLoop(s, p, b, len, BitSequenceNew(0, 0))

\* borrow_reader_from_boundary that leaves the buffered bits in the reader
BorrowKeepingBits(b) == b

\* BitReader::borrow_reader_from_boundary: the buffered bits are dropped
borrow_reader_from_boundary(b) == BitSequenceNew(0, 0)

(***************************************************************************)
(* huffman_coding.rs: HuffmanCoding<T>                                     *)
(* A table is a function from BitSequence keys to code words; the token a  *)
(* code word stands for is looked up when the symbol is used.              *)
(***************************************************************************)
MAX_BITS == 15

\* whether T::try_from(HuffmanCodeWord(code)) is Ok, for the alphabet T:
\* TreeCodeToken, LitLenToken, DistanceToken, and the tests' Value
TryFromOk(alphabet, code) ==
    CASE alphabet = "TreeCode" -> code <= 18
      [] alphabet = "LitLen"   -> code <= 285
      [] alphabet = "Dist"     -> code <= 29
      [] OTHER                 -> TRUE

\* bl_count, with bl_count[0] forced to 0; a length above MAX_BITS indexes
\* past the vector, which is a panic (see from_lengths)
BlCount(code_lengths) ==
    [b \in 0..MAX_BITS |->
        IF b = 0 THEN 0
        ELSE Cardinality({i \in 1..Len(code_lengths) : code_lengths[i] = b})]

\* the loop `code = (code + bl_count[bits - 1]) << 1` in u16: nc is next_code
\* so far, over is whether an addition left the u16 range
RECURSIVE NextCodeLoop(_, _, _, _, _)
NextCodeLoop(bl_count, bits, code, nc, over) ==
    IF bits > MAX_BITS THEN [next_code |-> nc, overflow |-> over]
    ELSE LET sum == code + bl_count[bits - 1]
             c   == ((sum % U16) * 2) % U16
         IN NextCodeLoop(bl_count, bits + 1, c,
                         [nc EXCEPT ![bits] = c], over \/ sum >= U16)

\* HashMap::insert
MapInsert(map, key, val) == (key :> val) @@ map

EmptyMap == <<>>

\* the body of the loop over the symbols, for the symbol `code`, on the
\* loop's state st = [next_code, map, overflow]: a symbol whose try_from
\* fails is skipped by `continue`, before the insert and before
\* next_code[len] += 1
InsertSymbolNoIncrement(alphabet, code_lengths, code, st) ==
    LET len == code_lengths[code + 1] IN
    IF len = 0 \/ ~TryFromOk(alphabet, code) THEN st
    ELSE [next_code |-> st.next_code,
          map       |-> MapInsert(st.map, BitSequenceNew(st.next_code[len], len), code),
          overflow  |-> st.overflow]

InsertSymbol(alphabet, code_lengths, code, st) ==
    LET len == code_lengths[code + 1] IN
    IF len = 0 \/ ~TryFromOk(alphabet, code) THEN st
    ELSE [next_code |-> [st.next_code EXCEPT ![len] = (st.next_code[len] + 1) % U16],
          map       |-> MapInsert(st.map, BitSequenceNew(st.next_code[len], len), code),
          overflow  |-> st.overflow \/ st.next_code[len] + 1 >= U16]

\* the loop over the symbols lo..hi-1 in increasing order. The range is
\* halved, and the left half evaluated first, only to keep the evaluation
\* shallow; the order of the inserts is the loop's.
RECURSIVE BuildMapLoop(_, _, _, _, _)
BuildMapLoop(alphabet, code_lengths, lo, hi, st) ==
    IF hi <= lo THEN st
    ELSE IF hi = lo + 1 THEN InsertSymbol(alphabet, code_lengths, lo, st)
    ELSE LET mid == (lo + hi) \div 2
             left == BuildMapLoop(alphabet, code_lengths, lo, mid, st)
         IN IF left.overflow \in BOOLEAN
            THEN BuildMapLoop(alphabet, code_lengths, mid, hi, left)
            ELSE left

\* HuffmanCoding::<T>::from_lengths. It never returns Err: the outcome is a
\* table ("Ok"), or a panic when a length indexes past bl_count. overflow
\* tells that a u16 addition overflowed, which panics in a build with
\* overflow checks and wraps in one without.
from_lengths(alphabet, code_lengths) ==
    IF \E i \in 1..Len(code_lengths) : code_lengths[i] > MAX_BITS
    THEN [outcome |-> "Panic", map |-> EmptyMap, overflow |-> FALSE]
    ELSE LET nc == NextCodeLoop(BlCount(code_lengths), 1, 0,
                                [b \in 0..MAX_BITS |-> 0], FALSE)
             m  == BuildMapLoop(alphabet, code_lengths, 0, Len(code_lengths),
                                [next_code |-> nc.next_code, map |-> EmptyMap,
                                 overflow |-> nc.overflow])
         IN [outcome |-> "Ok", map |-> m.map, overflow |-> m.overflow]

\* what read_symbol hands back, with the reader as the read r left it
SymbolResult(ok, err, val, r) ==
    [ok |-> ok, err |-> err, val |-> val, pos |-> r.pos, buffer |-> r.buffer]

\* the for loop of read_symbol: i counts the bits taken so far, bit is the
\* outcome of read_bits(1) in this iteration, cur the code word gathered
RECURSIVE ReadSymbolLoop(_, _, _, _, _, _)
ReadSymbolLookup(map, s, bit, cur, i) ==
    IF cur \in DOMAIN map THEN SymbolResult(TRUE, "", map[cur], bit)
    ELSE ReadSymbolLoop(map, s, bit.pos, bit.buffer, cur, i + 1)

\* read_symbol gathering the code word with the first bit lowest
ReadSymbolBitLowFirst(map, s, bit, current, i) ==
    IF ~bit.ok THEN SymbolResult(FALSE, "eof", 0, bit)
    ELSE ReadSymbolLookup(map, s, bit, Concat(current, bit.val), i)

ReadSymbolBit(map, s, bit, current, i) ==
    IF ~bit.ok THEN SymbolResult(FALSE, "eof", 0, bit)
    ELSE ReadSymbolLookup(map, s, bit, Concat(bit.val, current), i)

ReadSymbolLoop(map, s, p, b, current, i) ==
    IF i >= MAX_BITS
    THEN [ok |-> FALSE, err |-> "undefined symbol", val |-> 0, pos |-> p, buffer |-> b]
    ELSE ReadSymbolBit(map, s, read_bits(s, p, b, 1), current, i)

\* read_symbol that leaves the reader where it was
ReadSymbolPeek(map, s, p, b) ==
    [ReadSymbolLoop(map, s, p, b, BitSequenceNew(0, 0), 0) EXCEPT !.pos = p, !.buffer = b]

\* HuffmanCoding::read_symbol on the reader (p, b) over source s
read_symbol(map, s, p, b) == ReadSymbolLoop(map, s, p, b, BitSequenceNew(0, 0), 0)

\* the lengths get_fixed_tree builds its two tables from
FixedLitLenLengths ==
    [i \in 1..288 |-> IF i - 1 <= 143 THEN 8
                      ELSE IF i - 1 <= 255 THEN 9
                      ELSE IF i - 1 <= 279 THEN 7 ELSE 8]

FixedDistLengths == [i \in 1..32 |-> 5]

(***************************************************************************)
(* Wide integers. A u32 or usize value v is held as [q, r] with            *)
(* v = q * 65536 + r and 0 <= r < 65536, so that values of 2^31 and above  *)
(* (a CRC-32, a byte count past 2^32) stay exact.                          *)
(***************************************************************************)
Wide(q, r) == [q |-> q, r |-> r]

WideOfNat(n) == Wide(n \div U16, n % U16)

\* v + n for a small n
WideAdd(v, n) == Wide(v.q + ((v.r + n) \div U16), (v.r + n) % U16)

WideXor(a, b) == Wide(BitXor(a.q, b.q), BitXor(a.r, b.r))

\* v >> k for k <= 16, on a 32-bit value
WideShr(v, k) == Wide(v.q \div Pow2(k), (v.r \div Pow2(k)) + ((v.q % Pow2(k)) * Pow2(16 - k)))

\* u32::from_le_bytes
U32FromLe(b) == Wide(b[3] + (256 * b[4]), b[1] + (256 * b[2]))

\* u32::to_le_bytes
U32ToLe(v) == <<v.r % 256, v.r \div 256, v.q % 256, v.q \div 256>>

\* u16::to_le_bytes
U16ToLe(x) == <<x % 256, x \div 256>>

(***************************************************************************)
(* CRC-32/ISO-HDLC as the crc crate computes it: reflected, polynomial     *)
(* 0xEDB88320, register preset to 0xFFFFFFFF, result xored with 0xFFFFFFFF *)
(***************************************************************************)
CrcPoly == Wide(60856, 33568)
CrcMask == Wide(65535, 65535)

RECURSIVE CrcRounds(_, _)
CrcRounds(c, n) ==
    IF n = 0 THEN c
    ELSE CrcRounds(IF c.r % 2 = 1 THEN WideXor(WideShr(c, 1), CrcPoly) ELSE WideShr(c, 1),
                   n - 1)

CrcTable == [i \in 0..255 |-> CrcRounds(Wide(0, i), 8)]

\* Crc::digest(): a fresh register
CrcDigestNew == CrcMask

\* Digest::update(bytes)
RECURSIVE CrcUpdate(_, _)
CrcUpdate(reg, bytes) ==
    IF bytes = <<>> THEN reg
    ELSE LET next == WideXor(CrcTable[BitXor(reg.r % 256, Head(bytes))], WideShr(reg, 8))
         IN \* the test only makes the register a value before the next byte
            IF next.r >= 0 THEN CrcUpdate(next, Tail(bytes)) ELSE reg

\* Digest::finalize()
CrcFinalize(reg) == WideXor(reg, CrcMask)

\* the CRC-32 of a byte sequence
Crc32(bytes) == CrcFinalize(CrcUpdate(CrcDigestNew, bytes))

(***************************************************************************)
(* The sink under the TrackingWriter: like the tests' &mut [u8], it takes  *)
(* what it has room for. A sink without room answers Ok(0) (full = "zero") *)
(* or an io error (full = "err").                                          *)
(***************************************************************************)
SinkWrite(sink, bytes) ==
    LET n == Min(Len(bytes), sink.room) IN
    IF bytes # <<>> /\ sink.room = 0 /\ sink.full = "err"
    THEN [ok |-> FALSE, size |-> 0, sink |-> sink]
    ELSE [ok   |-> TRUE,
          size |-> n,
          sink |-> [sink EXCEPT !.bytes = sink.bytes \o SubSeq(bytes, 1, n),
                                !.room = sink.room - n]]

(***************************************************************************)
(* tracking_writer.rs: TrackingWriter; w = [inner, buf, bytes_counter,     *)
(* crc_digest]. HISTORY_SIZE is 32768 in the source and is scaled down     *)
(* here, so that evictions from the window happen within the bounds.       *)
(***************************************************************************)
HISTORY_SIZE == 3

\* TrackingWriter::new(inner) that takes the window over from the writer of
\* the member before
TrackingWriterKeepWindow(inner_, old_buf) ==
    [inner |-> inner_, buf |-> old_buf, bytes_counter |-> WideOfNat(0),
     crc_digest |-> CrcDigestNew]

\* TrackingWriter::new(inner); old_buf is the window of the writer it replaces
TrackingWriterNew(inner_, old_buf) ==
    [inner |-> inner_, buf |-> <<>>, bytes_counter |-> WideOfNat(0),
     crc_digest |-> CrcDigestNew]

\* the loop that pushes the accepted bytes into the window, oldest out first
RECURSIVE PushWindow(_, _)
PushWindow(window, bytes) ==
    IF bytes = <<>> THEN window
    ELSE PushWindow(Append(IF Len(window) >= HISTORY_SIZE THEN Tail(window) ELSE window,
                           Head(bytes)),
                    Tail(bytes))

\* write that pushes, digests and counts every byte offered instead of the
\* bytes the sink accepted
WriteAcceptedAllOffered(w, bytes, r) ==
    IF ~r.ok THEN [ok |-> FALSE, size |-> 0, w |-> w]
    ELSE [ok   |-> TRUE,
          size |-> r.size,
          w    |-> [inner         |-> r.sink,
                    buf           |-> PushWindow(w.buf, bytes),
                    bytes_counter |-> WideAdd(w.bytes_counter, Len(bytes)),
                    crc_digest    |-> CrcUpdate(w.crc_digest, bytes)]]

\* <TrackingWriter as Write>::write, once the sink has answered r
WriteAccepted(w, bytes, r) ==
    IF ~r.ok THEN [ok |-> FALSE, size |-> 0, w |-> w]
    ELSE [ok   |-> TRUE,
          size |-> r.size,
          w    |-> [inner         |-> r.sink,
                    buf           |-> PushWindow(w.buf, SubSeq(bytes, 1, r.size)),
                    bytes_counter |-> WideAdd(w.bytes_counter, r.size),
                    crc_digest    |-> CrcUpdate(w.crc_digest, SubSeq(bytes, 1, r.size))]]

\* <TrackingWriter as Write>::write
Write(w, bytes) == WriteAccepted(w, bytes, SinkWrite(w.inner, bytes))

\* std's Write::write_all over write: Ok(0) is the error WriteZero; r is
\* what the last write answered
RECURSIVE WriteAll(_, _)
WriteAllNext(bytes, r) ==
    IF ~r.ok \/ r.size = 0 THEN [ok |-> FALSE, w |-> r.w]
    ELSE WriteAll(r.w, SubSeq(bytes, r.size + 1, Len(bytes)))

WriteAll(w, bytes) ==
    IF bytes = <<>> THEN [ok |-> TRUE, w |-> w]
    ELSE WriteAllNext(bytes, Write(w, bytes))

\* the copy loop of write_previous with the index clamped instead of wrapped
PreviousBytesClamped(window, dist, len) ==
    [i \in 1..len |-> window[Len(window) - dist + Min(i - 1, dist - 1) + 1]]

\* the copy loop of write_previous: buf.push(self.buf[self.buf.len() - dist + (idx % dist)])
PreviousBytes(window, dist, len) ==
    [i \in 1..len |-> window[Len(window) - dist + ((i - 1) % dist) + 1]]

\* write_previous that takes Ok(size) for success whatever the size
WritePreviousWrittenAnySize(len, r) ==
    IF ~r.ok THEN [res |-> "Err", err |-> "io", w |-> r.w]
    ELSE [res |-> "Ok", err |-> "", w |-> r.w]

\* write_previous after `let size = self.write(&buf)?`
WritePreviousWritten(len, r) ==
    IF ~r.ok THEN [res |-> "Err", err |-> "io", w |-> r.w]
    ELSE IF r.size < len THEN [res |-> "Err", err |-> "buffer overflow", w |-> r.w]
    ELSE [res |-> "Ok", err |-> "", w |-> r.w]

\* TrackingWriter::write_previous. res is "Ok", "Err" or, for dist = 0 with
\* len > 0, "Panic" (idx % dist divides by zero).
write_previous(w, dist, len) ==
    IF dist > Len(w.buf) THEN [res |-> "Err", err |-> "bad dist", w |-> w]
    ELSE IF dist = 0 /\ len > 0 THEN [res |-> "Panic", err |-> "", w |-> w]
    ELSE WritePreviousWritten(
             len, Write(w, IF len = 0 THEN <<>> ELSE PreviousBytes(w.buf, dist, len)))

\* TrackingWriter::byte_count
byte_count(w) == w.bytes_counter

\* TrackingWriter::crc32
crc32(w) == CrcFinalize(w.crc_digest)

(***************************************************************************)
(* Values the variables hold while a component is not in use.              *)
(***************************************************************************)
NoTrees == [litlen |-> <<>>, dist |-> <<>>]
NoSink == [bytes |-> <<>>, room |-> 0, full |-> "zero"]
NoEvent == [op |-> "new", ok |-> TRUE, res |-> "Ok"]

(***************************************************************************)
(* SpecBitReader: a BitReader over every short byte input, driven by       *)
(* read_bits(n), n in 0..16, and by reads through the borrowed source.     *)
(***************************************************************************)
MaxReaderBytes == 3
ReaderBytes == {99, 175}

RECURSIVE SeqsUpTo(_, _)
SeqsUpTo(S, n) ==
    IF n = 0 THEN {<<>>}
    ELSE LET shorter == SeqsUpTo(S, n - 1)
         IN shorter \cup {Append(q, x) : q \in {r \in shorter : Len(r) = n - 1}, x \in S}

InitBitReader ==
    /\ stream \in SeqsUpTo(ReaderBytes, MaxReaderBytes)
    /\ pos = 0
    /\ buffer = EmptyBits
    /\ data_left = TRUE
    /\ trees = NoTrees
    /\ inner = NoSink
    /\ buf = <<>>
    /\ bytes_counter = WideOfNat(0)
    /\ crc_digest = CrcDigestNew
    /\ pc = "reader"
    /\ result = "running"
    /\ ev = NoEvent
    /\ meta = [requested |-> 0, bitsOnly |-> TRUE]

UnchangedButReader ==
    UNCHANGED <<stream, data_left, trees, inner, buf, bytes_counter,
                crc_digest, pc, result>>

\* one call reader.read_bits(n); every caller in the repository gives up on
\* the reader at its first Err, and so does this harness
BR_ReadBits ==
    \E n \in 0..16 :
        LET r == read_bits(stream, pos, buffer, n) IN
        /\ pc = "reader" /\ ev.ok
        /\ pos' = r.pos
        /\ buffer' = r.buffer
        /\ ev' = [op |-> "read_bits", n |-> n, ok |-> r.ok, val |-> r.val,
                  pos0 |-> pos, buffer0 |-> buffer, prev |-> ev.op,
                  dropped |-> IF ev.op = "borrow_read_u8" THEN ev.buffer0.len ELSE 0]
        /\ meta' = [requested |-> IF r.ok THEN meta.requested + n ELSE meta.requested,
                    bitsOnly  |-> meta.bitsOnly /\ r.ok]
        /\ UnchangedButReader

\* one call reader.borrow_reader_from_boundary().read_u8()
BR_BorrowReadU8 ==
    LET r == ReadU8(stream, pos) IN
    /\ pc = "reader" /\ ev.ok
    /\ pos' = r.pos
    /\ buffer' = borrow_reader_from_boundary(buffer)
    /\ ev' = [op |-> "borrow_read_u8", n |-> 8, ok |-> r.ok,
              val |-> BitSequenceNew(r.val, 8), pos0 |-> pos, buffer0 |-> buffer,
              prev |-> ev.op, dropped |-> buffer.len]
    /\ meta' = [requested |-> meta.requested, bitsOnly |-> FALSE]
    /\ UnchangedButReader

NextBitReader == BR_ReadBits \/ BR_BorrowReadU8

SpecBitReader == InitBitReader /\ [][NextBitReader]_vars

\* the LSB-first unpacking of a byte sequence: bit k is bit k % 8 of byte k \div 8
UnpackBit(s, k) == BitOf(s[(k \div 8) + 1], k % 8)

\* C3: in a run of read_bits calls that all succeeded on a fresh reader, each
\* call read_bits(n) returns n bits, and bit j of what it returns is bit
\* (bits requested before the call + j) of the LSB-first unpacking of the input.
C3_ReadBitsUnpack ==
    (ev.op = "read_bits" /\ meta.bitsOnly) =>
        /\ ev.val.len = ev.n
        /\ ev.val.bits < Pow2(ev.n)
        /\ \A j \in 0..(ev.n - 1) :
               BitOf(ev.val.bits, j) = UnpackBit(stream, meta.requested - ev.n + j)

\* a 16-bit read across two bytes that ends exactly at the end of the input,
\* after an earlier read that left bits in the buffer
C3_Witness ==
    /\ ev.op = "read_bits" /\ meta.bitsOnly
    /\ ev.n = 13 /\ ev.buffer0.len = 5
    /\ meta.requested = 8 * Len(stream)
    /\ Len(stream) = 2
    /\ ev.val.bits # 0

\* C14: borrow_reader_from_boundary drops the bits still buffered from a
\* partially consumed byte and never an unread byte (the buffer holds fewer
\* than 8 bits, the high bits of the last byte taken from the source); a
\* byte read through the borrowed source is the byte right after that one;
\* and the next read_bits starts at bit 0 of the first byte that neither
\* path has read.
C14_BorrowFromBoundary ==
    /\ ev.ok =>
           /\ buffer.len < 8
           /\ buffer.len > 0 =>
                  (pos >= 1 /\ buffer.bits = stream[pos] \div Pow2(8 - buffer.len))
    /\ (ev.op = "borrow_read_u8" /\ ev.ok) =>
           /\ ev.val.bits = stream[ev.pos0 + 1]
           /\ pos = ev.pos0 + 1
           /\ buffer.len = 0
    /\ (ev.op = "read_bits" /\ ev.ok /\ ev.prev = "borrow_read_u8") =>
           /\ ev.val.len = ev.n
           /\ \A j \in 0..(ev.n - 1) :
                  BitOf(ev.val.bits, j) = UnpackBit(stream, (8 * ev.pos0) + j)

\* bits of the first byte were left in the buffer, the second byte was read
\* through the borrowed source, and read_bits then took bits of the third
C14_Witness ==
    /\ ev.op = "read_bits" /\ ev.ok /\ ev.prev = "borrow_read_u8"
    /\ ev.dropped > 0 /\ ev.pos0 = 2
    /\ ev.n = 8 /\ ev.val.bits # 0

\* ceil(a / 8) for a >= 0
CeilDiv8(a) == (a + 7) \div 8

\* C15: a successful read_bits(n), n in 0..16, with b bits buffered before
\* the call takes exactly ceil((n - b) / 8) bytes from the source if n > b
\* and none otherwise, and leaves between 0 and 7 bits in the buffer.
C15_BytesConsumed ==
    (ev.op = "read_bits" /\ ev.ok) =>
        /\ pos - ev.pos0 = IF ev.n > ev.buffer0.len
                           THEN CeilDiv8(ev.n - ev.buffer0.len) ELSE 0
        /\ 0 <= buffer.len /\ buffer.len <= 7

\* a read that wants more than 8 bits beyond the buffered ones and takes
\* two bytes from the source
C15_Witness ==
    /\ ev.op = "read_bits" /\ ev.ok
    /\ ev.buffer0.len > 0
    /\ ev.n - ev.buffer0.len > 8
    /\ pos - ev.pos0 = 2

(***************************************************************************)
(* Reference definitions of RFC 1951, written without the code's tables:   *)
(* the canonical code of a symbol and the packing of bits into bytes.      *)
(***************************************************************************)
\* RFC 1951 3.2.2: codes are ordered by length, then by symbol; the code of
\* s counts the shorter and the earlier equal-length codes, each scaled to
\* the length of s
RECURSIVE SumOver(_, _)
SumOver(S, f) ==
    IF S = {} THEN 0
    ELSE LET x == CHOOSE y \in S : TRUE IN f[x] + SumOver(S \ {x}, f)

CountOfLen(L, b) == Cardinality({t \in 1..Len(L) : L[t] = b})

CanonicalCode(L, s) ==
    LET n == L[s + 1]
        shorter == [b \in 1..(n - 1) |-> CountOfLen(L, b) * Pow2(n - b)]
        earlier == Cardinality({t \in 0..(s - 1) : L[t + 1] = n})
    IN (SumOver(1..(n - 1), shorter) + earlier) % Pow2(n)

\* the code of s as bits in the order they enter the stream: most significant first
CodeBits(L, s) == [i \in 1..L[s + 1] |-> BitOf(CanonicalCode(L, s), L[s + 1] - i)]

\* the low n bits of x, least significant first (an extra-bits field)
LsbBits(x, n) == [i \in 1..n |-> BitOf(x, i - 1)]

\* Kraft sum of L, scaled by 2^MAX_BITS
KraftScaled(L) ==
    LET weight == [b \in 1..MAX_BITS |-> CountOfLen(L, b) * Pow2(MAX_BITS - b)]
    IN SumOver(1..MAX_BITS, weight)

KraftComplete(L) == KraftScaled(L) = Pow2(MAX_BITS)

\* bits, in stream order, packed into bytes from the least significant bit
\* up; the last byte is filled with zeros
PackBits(bits) ==
    [i \in 1..((Len(bits) + 7) \div 8) |->
        LET at == [j \in 0..7 |-> IF 8 * (i - 1) + j + 1 <= Len(bits)
                                   THEN bits[8 * (i - 1) + j + 1] * Pow2(j) ELSE 0]
        IN SumOver(0..7, at)]

(***************************************************************************)
(* SpecHuffman: from_lengths on a code-length vector, then read_symbol on  *)
(* the packed codes of a sequence of symbols.                              *)
(***************************************************************************)
MaxSymbols == 3
MaxCodeLen == 2
MaxSymSeq == 2

RECURSIVE SeqsOfLen(_, _)
SeqsOfLen(S, n) ==
    IF n = 0 THEN {<<>>}
    ELSE {Append(q, x) : q \in SeqsOfLen(S, n - 1), x \in S}

SmallVectors == UNION {SeqsOfLen(0..MaxCodeLen, n) : n \in 1..MaxSymbols}

\* the vectors of the tests of huffman_coding.rs, a complete code that uses
\* every length up to MAX_BITS, and the two fixed vectors with their alphabets
TestLengths1 == <<2, 3, 4, 3, 3, 4, 2>>
TestLengths2 == <<3, 4, 5, 5, 0, 0, 6, 6, 4, 0, 6, 0, 7>>
SkewLengths == <<1, 2, 3, 4, 5, 6, 7, 8, 9, 10, 11, 12, 13, 14, 15, 15>>

HuffmanCases ==
    {[alphabet |-> "Value", lengths |-> L, sample |-> 0..(Len(L) - 1)] : L \in SmallVectors}
    \cup {[alphabet |-> "Value", lengths |-> TestLengths1, sample |-> {0, 1, 2, 5, 6}],
          [alphabet |-> "Value", lengths |-> TestLengths2, sample |-> {0, 3, 8, 12}],
          [alphabet |-> "Value", lengths |-> SkewLengths, sample |-> {0, 7, 14, 15}],
          [alphabet |-> "LitLen", lengths |-> FixedLitLenLengths,
           sample |-> {0, 144, 255, 256, 285, 286, 287}],
          [alphabet |-> "Dist", lengths |-> FixedDistLengths, sample |-> {0, 29, 30, 31}]}

InitHuffman ==
    \E c \in HuffmanCases :
    \E syms \in UNION {SeqsOfLen({x \in c.sample : c.lengths[x + 1] > 0}, n) :
                          n \in 1..MaxSymSeq} :
        /\ meta = [alphabet |-> c.alphabet, lengths |-> c.lengths, syms |-> syms, k |-> 0]
        /\ stream = PackBits(Flatten([i \in 1..Len(syms) |-> CodeBits(c.lengths, syms[i])]))
        /\ pos = 0
        /\ buffer = EmptyBits
        /\ data_left = TRUE
        /\ trees = NoTrees
        /\ inner = NoSink
        /\ buf = <<>>
        /\ bytes_counter = WideOfNat(0)
        /\ crc_digest = CrcDigestNew
        /\ pc = "from_lengths"
        /\ result = "running"
        /\ ev = NoEvent

\* HuffmanCoding::<T>::from_lengths(lengths)
H_FromLengths ==
    LET t == from_lengths(meta.alphabet, meta.lengths) IN
    /\ pc = "from_lengths"
    /\ trees' = [litlen |-> t.map, dist |-> <<>>]
    /\ pc' = IF t.outcome = "Ok" THEN "read_symbol" ELSE "done"
    /\ result' = IF t.outcome = "Ok" THEN result ELSE "Panic"
    /\ ev' = [op |-> "from_lengths", ok |-> t.outcome = "Ok", overflow |-> t.overflow]
    /\ UNCHANGED <<stream, pos, buffer, data_left, inner, buf, bytes_counter,
                   crc_digest, meta>>

\* code.read_symbol(&mut reader), for the next symbol of the sequence
H_ReadSymbol ==
    LET r == read_symbol(trees.litlen, stream, pos, buffer) IN
    /\ pc = "read_symbol" /\ ev.ok
    /\ meta.k < Len(meta.syms)
    /\ pos' = r.pos
    /\ buffer' = r.buffer
    /\ meta' = [meta EXCEPT !.k = meta.k + 1]
    /\ ev' = [op |-> "read_symbol", ok |-> r.ok, val |-> r.val, err |-> r.err,
              nbits |-> (8 * r.pos - r.buffer.len) - (8 * pos - buffer.len)]
    /\ UNCHANGED <<stream, data_left, trees, inner, buf, bytes_counter,
                   crc_digest, pc, result>>

NextHuffman == H_FromLengths \/ H_ReadSymbol

SpecHuffman == InitHuffman /\ [][NextHuffman]_vars

\* C2: for a length vector whose Kraft sum is 1, read_symbol on the canonical
\* code of a symbol s (that the alphabet can hold) returns s and takes
\* exactly L[s] bits from the reader.
C2_RoundTrip ==
    (/\ ev.op = "read_symbol"
     /\ KraftComplete(meta.lengths)
     /\ TryFromOk(meta.alphabet, meta.syms[meta.k])) =>
        /\ ev.ok
        /\ ev.val = meta.syms[meta.k]
        /\ ev.nbits = meta.lengths[meta.syms[meta.k] + 1]

\* the second symbol of a sequence, a 15-bit code read from the middle of a byte
C2_Witness ==
    /\ ev.op = "read_symbol" /\ ev.ok
    /\ KraftComplete(meta.lengths)
    /\ meta.k = 2
    /\ ev.nbits = MAX_BITS
    /\ ev.val = 14
    /\ meta.syms[1] # 14

(***************************************************************************)
(* SpecWriter: a TrackingWriter over a sink with room for 0..MaxSinkBytes  *)
(* bytes, driven by write, write_previous and by decompress starting the   *)
(* next member with a new writer over the same sink.                       *)
(***************************************************************************)
MaxSinkBytes == 5
MaxCopyLen == 3
WriteArgs == {<<>>, <<1>>, <<2>>, <<1, 2>>}

Writer == [inner |-> inner, buf |-> buf, bytes_counter |-> bytes_counter,
           crc_digest |-> crc_digest]

SetWriter(w) ==
    /\ inner' = w.inner
    /\ buf' = w.buf
    /\ bytes_counter' = w.bytes_counter
    /\ crc_digest' = w.crc_digest

\* what an event remembers of the writer before the call
Before == [buf0 |-> buf, count0 |-> bytes_counter, sink0 |-> inner.bytes,
           room0 |-> inner.room, crc0 |-> crc_digest]

InitWriter ==
    \E room \in 0..MaxSinkBytes, full \in {"zero", "err"} :
        /\ LET w == TrackingWriterNew([bytes |-> <<>>, room |-> room, full |-> full], <<>>)
           IN /\ inner = w.inner
              /\ buf = w.buf
              /\ bytes_counter = w.bytes_counter
              /\ crc_digest = w.crc_digest
        /\ stream = <<>>
        /\ pos = 0
        /\ buffer = EmptyBits
        /\ data_left = TRUE
        /\ trees = NoTrees
        /\ pc = "writer"
        /\ result = "running"
        /\ ev = NoEvent
        /\ meta = [member_start |-> 0]

UnchangedButWriter == UNCHANGED <<stream, pos, buffer, data_left, trees, pc, result>>

\* writer.write(bytes)
W_Write ==
    \E bytes \in WriteArgs :
        LET r == Write(Writer, bytes) IN
        /\ pc = "writer"
        /\ SetWriter(r.w)
        /\ ev' = [op |-> "write", res |-> IF r.ok THEN "Ok" ELSE "Err", size |-> r.size,
                  bytes |-> bytes, before |-> Before]
        /\ UNCHANGED meta
        /\ UnchangedButWriter

\* writer.write_previous(dist, len)
W_WritePrevious ==
    \E dist \in 0..(HISTORY_SIZE + 1), len \in 0..MaxCopyLen :
        LET r == write_previous(Writer, dist, len) IN
        /\ pc = "writer"
        /\ SetWriter(r.w)
        /\ ev' = [op |-> "write_previous", res |-> r.res, err |-> r.err,
                  dist |-> dist, len |-> len, before |-> Before]
        /\ UNCHANGED meta
        /\ UnchangedButWriter

\* lib.rs: `let mut writer = TrackingWriter::new(&mut output)` at the start
\* of the next member, which decompress reaches only after calls that succeeded
W_NewMember ==
    /\ pc = "writer"
    /\ ev.op \in {"write", "write_previous"} /\ ev.res = "Ok"
    /\ SetWriter(TrackingWriterNew(inner, buf))
    /\ ev' = [op |-> "new_member", res |-> "Ok", before |-> Before]
    /\ meta' = [member_start |-> Len(inner.bytes)]
    /\ UnchangedButWriter

NextWriter == W_Write \/ W_WritePrevious \/ W_NewMember

SpecWriter == InitWriter /\ [][NextWriter]_vars

\* bytes the sink took since the current member's writer was made
MemberEmitted(sinkBytes) == Len(sinkBytes) - meta.member_start

\* C4: with w bytes in the window, 1 <= distance <= w and a sink that has room
\* for length bytes, write_previous(distance, length) succeeds, the sink gets
\* exactly length more bytes, byte i being window[w - distance + (i mod distance)]
\* of the window before the call (equivalently: each byte repeats the byte
\* `distance` places before it in window ++ output), and byte_count grows by length.
C4_WritePrevious ==
    (/\ ev.op = "write_previous"
     /\ 1 <= ev.dist /\ ev.dist <= Len(ev.before.buf0)
     /\ ev.before.room0 >= ev.len) =>
        LET w0  == ev.before.buf0
            n0  == Len(ev.before.sink0)
            out == SubSeq(inner.bytes, n0 + 1, Len(inner.bytes))
            h   == w0 \o out
        IN /\ ev.res = "Ok"
           /\ SubSeq(inner.bytes, 1, n0) = ev.before.sink0
           /\ Len(out) = ev.len
           /\ \A i \in 0..(ev.len - 1) :
                  /\ out[i + 1] = w0[Len(w0) - ev.dist + (i % ev.dist) + 1]
                  /\ h[Len(w0) + i + 1] = h[Len(w0) + i + 1 - ev.dist]
           /\ byte_count(Writer) = WideAdd(ev.before.count0, ev.len)

\* a copy longer than its distance, from a window of two different bytes
C4_Witness ==
    /\ ev.op = "write_previous" /\ ev.res = "Ok"
    /\ ev.dist = 2 /\ ev.len = 3
    /\ Len(ev.before.buf0) >= 2
    /\ ev.before.buf0[Len(ev.before.buf0)] # ev.before.buf0[Len(ev.before.buf0) - 1]

\* C7: write_previous with a distance above min(HISTORY_SIZE, bytes emitted in
\* the current member) is an Err and changes nothing: the sink, the window and
\* byte_count are as before. A new member's writer starts from no bytes, so no
\* distance reaches the bytes of the members before.
C7_BadDistance ==
    (/\ ev.op = "write_previous"
     /\ ev.dist > Min(HISTORY_SIZE, MemberEmitted(ev.before.sink0))) =>
        /\ ev.res = "Err"
        /\ inner.bytes = ev.before.sink0
        /\ buf = ev.before.buf0
        /\ bytes_counter = ev.before.count0

\* a second member that has emitted one byte and asks for distance 2, while
\* the sink holds bytes of the first member
C7_Witness ==
    /\ ev.op = "write_previous" /\ ev.res = "Err"
    /\ meta.member_start >= 2
    /\ MemberEmitted(ev.before.sink0) = 1
    /\ ev.dist = 2 /\ ev.len > 0

\* the bytes the sink accepted from the current member's writer, in order
MemberBytes == SubSeq(inner.bytes, meta.member_start + 1, Len(inner.bytes))

\* the last n elements of a sequence
LastOf(seq, n) == SubSeq(seq, Len(seq) - n + 1, Len(seq))

\* C11: after any sequence of write and write_previous calls, also when the
\* sink accepts fewer bytes than offered, byte_count is the number of bytes
\* the sink accepted, the CRC is the CRC-32 of exactly those bytes in order,
\* and the window holds exactly the last min(HISTORY_SIZE, byte_count) of
\* them, never more than HISTORY_SIZE.
C11_WriterTracksAccepted ==
    /\ byte_count(Writer) = WideOfNat(Len(MemberBytes))
    /\ crc32(Writer) = Crc32(MemberBytes)
    /\ buf = LastOf(MemberBytes, Min(HISTORY_SIZE, Len(MemberBytes)))
    /\ Len(buf) <= HISTORY_SIZE

\* a write of which the sink took a part only, after more than HISTORY_SIZE
\* bytes, so that bytes have left the window
C11_Witness ==
    /\ ev.op = "write" /\ ev.res = "Ok"
    /\ 0 < ev.size /\ ev.size < Len(ev.bytes)
    /\ Len(MemberBytes) > HISTORY_SIZE

\* the number of bytes the sink accepted during the call the event is of
AcceptedInCall == Len(inner.bytes) - Len(ev.before.sink0)

\* C12: when the sink accepts fewer bytes than a back-reference produces,
\* write_previous returns an error, and byte_count grows by exactly the
\* number of bytes the sink accepted.
C12_ShortCopy ==
    (/\ ev.op = "write_previous"
     /\ 1 <= ev.dist /\ ev.dist <= Len(ev.before.buf0)
     /\ AcceptedInCall < ev.len) =>
        /\ ev.res = "Err"
        /\ SubSeq(inner.bytes, 1, Len(ev.before.sink0)) = ev.before.sink0
        /\ byte_count(Writer) = WideAdd(ev.before.count0, AcceptedInCall)

\* a copy of which the sink took a part, neither nothing nor all
C12_Witness ==
    /\ ev.op = "write_previous"
    /\ 1 <= ev.dist /\ ev.dist <= Len(ev.before.buf0)
    /\ 0 < AcceptedInCall /\ AcceptedInCall < ev.len

(***************************************************************************)
(* gzip.rs: the member header and footer. A header is                      *)
(* [compression_method, modification_time, extra, name, comment,           *)
(* extra_flags, os, has_crc, is_text]; an Option is [some, val].           *)
(***************************************************************************)
ID1 == 31
ID2 == 139
CM_DEFLATE == 8
FTEXT_OFFSET == 0
FHCRC_OFFSET == 1
FEXTRA_OFFSET == 2
FNAME_OFFSET == 3
FCOMMENT_OFFSET == 4

None == [some |-> FALSE, val |-> <<>>]
Some(v) == [some |-> TRUE, val |-> v]

NoHeader ==
    [compression_method |-> 0, modification_time |-> Wide(0, 0), extra |-> None,
     name |-> None, comment |-> None, extra_flags |-> 0, os |-> 0,
     has_crc |-> FALSE, is_text |-> FALSE]

\* MemberFlags::bit
FlagBit(flg, n) == BitOf(flg, n) # 0

\* MemberHeader::flags: the flag byte rebuilt from the five fields
flags(h) ==
      (IF h.is_text THEN Pow2(FTEXT_OFFSET) ELSE 0)
    + (IF h.has_crc THEN Pow2(FHCRC_OFFSET) ELSE 0)
    + (IF h.extra.some THEN Pow2(FEXTRA_OFFSET) ELSE 0)
    + (IF h.name.some THEN Pow2(FNAME_OFFSET) ELSE 0)
    + (IF h.comment.some THEN Pow2(FCOMMENT_OFFSET) ELSE 0)

\* the bytes MemberHeader::crc16 feeds to its digest, in order
Crc16Input(h) ==
       <<ID1, ID2, h.compression_method, flags(h)>>
    \o U32ToLe(h.modification_time)
    \o <<h.extra_flags, h.os>>
    \o (IF h.extra.some THEN U16ToLe(Len(h.extra.val) % U16) \o h.extra.val ELSE <<>>)
    \o (IF h.name.some THEN h.name.val \o <<0>> ELSE <<>>)
    \o (IF h.comment.some THEN h.comment.val \o <<0>> ELSE <<>>)

\* MemberHeader::crc16: (digest.finalize() & 0xffff) as u16
crc16(h) == Crc32(Crc16Input(h)).r

\* read_exact of n bytes from the source: all n, or UnexpectedEof
ReadExact(s, p, n) ==
    IF p + n <= Len(s) THEN [ok |-> TRUE, val |-> SubSeq(s, p + 1, p + n), pos |-> p + n]
    ELSE [ok |-> FALSE, val |-> <<>>, pos |-> Len(s)]

\* BufRead::read_until(0): the bytes up to and including the first 0, or up
\* to the end of the source when it holds none; reaching the end is no error
ReadUntilNul(s, p) ==
    LET nul == {i \in (p + 1)..Len(s) : s[i] = 0}
        e   == IF nul = {} THEN Len(s) ELSE CHOOSE i \in nul : \A j \in nul : i <= j
    IN [val |-> SubSeq(s, p + 1, e), pos |-> e]

\* whether String::from_utf8 accepts the bytes
RECURSIVE IsUtf8(_)
IsUtf8(b) ==
    IF b = <<>> THEN TRUE
    ELSE LET c == b[1]
             Cont(i) == i <= Len(b) /\ b[i] >= 128 /\ b[i] <= 191
             Rest(n) == SubSeq(b, n + 1, Len(b))
         IN IF c < 128 THEN IsUtf8(Rest(1))
            ELSE IF c >= 194 /\ c <= 223 THEN Cont(2) /\ IsUtf8(Rest(2))
            ELSE IF c >= 224 /\ c <= 239
                 THEN /\ Cont(2) /\ Cont(3)
                      /\ (c = 224 => b[2] >= 160)
                      /\ (c = 237 => b[2] <= 159)
                      /\ IsUtf8(Rest(3))
            ELSE IF c >= 240 /\ c <= 244
                 THEN /\ Cont(2) /\ Cont(3) /\ Cont(4)
                      /\ (c = 240 => b[2] >= 144)
                      /\ (c = 244 => b[2] <= 143)
                      /\ IsUtf8(Rest(4))
            ELSE FALSE

\* GzipReader::read_string: the String keeps the terminating 0 it has read
read_string(s, p) ==
    LET r == ReadUntilNul(s, p)
    IN [ok |-> IsUtf8(r.val), val |-> r.val, pos |-> r.pos]

\* what read_header hands back: outcome is "None", "Err", "Panic" (an unwrap
\* of an Err) or "Ok"; flg is the flag byte as read
HeaderResult(outcome, err, p, h, flg) ==
    [outcome |-> outcome, err |-> err, pos |-> p, header |-> h, flg |-> flg]

\* the MemberHeader read_header builds; fx is the fixed part FLG, MTIME, XFL, OS
MemberHeader(cm, fx, extra, name, comment) ==
    [compression_method |-> cm,
     modification_time  |-> U32FromLe(SubSeq(fx, 2, 5)),
     extra              |-> extra,
     name               |-> IF FlagBit(fx[1], FNAME_OFFSET) THEN Some(name.val) ELSE None,
     comment            |-> IF FlagBit(fx[1], FCOMMENT_OFFSET) THEN Some(comment.val) ELSE None,
     extra_flags        |-> fx[6],
     os                 |-> fx[7],
     has_crc            |-> FlagBit(fx[1], FHCRC_OFFSET),
     is_text            |-> FlagBit(fx[1], FTEXT_OFFSET)]

\* line 241, once read_u16 has answered crc: `.ok()?` turns its Err into None
ReadHeaderCheckCrc(h, flg, crc) ==
    IF ~crc.ok THEN HeaderResult("None", "", crc.pos, NoHeader, flg)
    ELSE IF crc.val[1] + (256 * crc.val[2]) # crc16(h)
         THEN HeaderResult("Err", "header crc16 check failed", crc.pos, NoHeader, flg)
    ELSE HeaderResult("Ok", "", crc.pos, h, flg)

\* lines 226-244
ReadHeaderCrc(s, h, flg, p) ==
    IF ~h.has_crc THEN HeaderResult("Ok", "", p, h, flg)
    ELSE ReadHeaderCheckCrc(h, flg, ReadExact(s, p, 2))

\* lines 222-225, once the comment is read (or there is none)
ReadHeaderComment(s, cm, fx, extra, name, comment) ==
    IF ~comment.ok THEN HeaderResult("Panic", "unwrap", comment.pos, NoHeader, fx[1])
    ELSE ReadHeaderCrc(s, MemberHeader(cm, fx, extra, name, comment), fx[1], comment.pos)

\* lines 218-221, once the name is read (or there is none)
ReadHeaderName(s, cm, fx, extra, name) ==
    IF ~name.ok THEN HeaderResult("Panic", "unwrap", name.pos, NoHeader, fx[1])
    ELSE ReadHeaderComment(s, cm, fx, extra, name,
                           IF FlagBit(fx[1], FCOMMENT_OFFSET) THEN read_string(s, name.pos)
                           ELSE [ok |-> TRUE, val |-> <<>>, pos |-> name.pos])

\* read_header from the name field on
ReadHeaderStrings(s, cm, fx, extra, p) ==
    ReadHeaderName(s, cm, fx, extra,
                   IF FlagBit(fx[1], FNAME_OFFSET) THEN read_string(s, p)
                   ELSE [ok |-> TRUE, val |-> <<>>, pos |-> p])

\* lines 214-216, once read_exact has answered extra
ReadHeaderExtra(s, cm, fx, extra) ==
    IF ~extra.ok THEN HeaderResult("Panic", "unwrap", extra.pos, NoHeader, fx[1])
    ELSE ReadHeaderStrings(s, cm, fx, Some(extra.val), extra.pos)

\* line 213, once read_u16 has answered xlen
ReadHeaderExtraLen(s, cm, fx, xlen) ==
    IF ~xlen.ok THEN HeaderResult("Panic", "unwrap", xlen.pos, NoHeader, fx[1])
    ELSE ReadHeaderExtra(s, cm, fx, ReadExact(s, xlen.pos, xlen.val[1] + (256 * xlen.val[2])))

\* lines 206-217: FLG, MTIME, XFL and OS are unwrapped; fx is what reading
\* the seven bytes answered
ReadHeaderFixed(s, cm, fx) ==
    IF ~fx.ok THEN HeaderResult("Panic", "unwrap", fx.pos, NoHeader, 0)
    ELSE IF ~FlagBit(fx.val[1], FEXTRA_OFFSET)
         THEN ReadHeaderStrings(s, cm, fx.val, None, fx.pos)
    ELSE ReadHeaderExtraLen(s, cm, fx.val, ReadExact(s, fx.pos, 2))

\* GzipReader::read_header on the source s at p
read_header(s, p) ==
    IF ~ReadU8(s, p).ok THEN HeaderResult("None", "", p, NoHeader, 0)
    ELSE IF ~ReadU8(s, p + 1).ok THEN HeaderResult("Err", "eof", p + 1, NoHeader, 0)
    ELSE IF s[p + 1] # 31 \/ s[p + 2] # 139
         THEN HeaderResult("Err", "wrong id values", p + 2, NoHeader, 0)
    ELSE IF ~ReadU8(s, p + 2).ok THEN HeaderResult("Err", "eof", p + 2, NoHeader, 0)
    ELSE ReadHeaderFixed(s, s[p + 3], ReadExact(s, p + 3, 7))

\* MemberReader::read_footer
read_footer(s, p) ==
    LET data_crc32 == ReadExact(s, p, 4)
        data_size  == ReadExact(s, data_crc32.pos, 4)
    IN IF ~data_crc32.ok \/ ~data_size.ok
       THEN [ok |-> FALSE, data_crc32 |-> Wide(0, 0), data_size |-> Wide(0, 0), pos |-> Len(s)]
       ELSE [ok |-> TRUE, data_crc32 |-> U32FromLe(data_crc32.val),
             data_size |-> U32FromLe(data_size.val), pos |-> data_size.pos]

(***************************************************************************)
(* huffman_coding.rs: the tokens the code words stand for                  *)
(***************************************************************************)
LengthBase ==
    <<3, 4, 5, 6, 7, 8, 9, 10, 11, 13, 15, 17, 19, 23, 27, 31, 35, 43, 51, 59,
      67, 83, 99, 115, 131, 163, 195, 227, 258>>
LengthExtraBits ==
    <<0, 0, 0, 0, 0, 0, 0, 0, 1, 1, 1, 1, 2, 2, 2, 2, 3, 3, 3, 3,
      4, 4, 4, 4, 5, 5, 5, 5, 0>>
DistanceBase ==
    <<1, 2, 3, 4, 5, 7, 9, 13, 17, 25, 33, 49, 65, 97, 129, 193, 257, 385, 513,
      769, 1025, 1537, 2049, 3073, 4097, 6145, 8193, 12289, 16385, 24577>>
DistanceExtraBits ==
    <<0, 0, 0, 0, 1, 1, 2, 2, 3, 3, 4, 4, 5, 5, 6, 6, 7, 7, 8, 8,
      9, 9, 10, 10, 11, 11, 12, 12, 13, 13>>

\* LitLenToken::try_from for a code word that the table holds (0..285)
LitLenToken(code) ==
    IF code < 256 THEN [kind |-> "Literal", byte |-> code, base |-> 0, extra_bits |-> 0]
    ELSE IF code = 256
         THEN [kind |-> "EndOfBlock", byte |-> 0, base |-> 0, extra_bits |-> 0]
    ELSE [kind |-> "Length", byte |-> 0, base |-> LengthBase[code - 256],
          extra_bits |-> LengthExtraBits[code - 256]]

\* DistanceToken::try_from for a code word that the table holds (0..29)
DistanceToken(code) ==
    [base |-> DistanceBase[code + 1], extra_bits |-> DistanceExtraBits[code + 1]]

\* TreeCodeToken::try_from for a code word that the table holds (0..18)
TreeCodeToken(code) ==
    IF code <= 15 THEN [kind |-> "Length", value |-> code, base |-> 0, extra_bits |-> 0]
    ELSE IF code = 16 THEN [kind |-> "CopyPrev", value |-> 0, base |-> 0, extra_bits |-> 0]
    ELSE IF code = 17 THEN [kind |-> "RepeatZero", value |-> 0, base |-> 3, extra_bits |-> 3]
    ELSE [kind |-> "RepeatZero", value |-> 0, base |-> 11, extra_bits |-> 7]

\* get_fixed_tree
get_fixed_tree ==
    [litlen |-> from_lengths("LitLen", FixedLitLenLengths).map,
     dist   |-> from_lengths("Dist", FixedDistLengths).map]

(***************************************************************************)
(* huffman_coding.rs: decode_litlen_distance_trees                         *)
(***************************************************************************)
lengths_map == <<16, 17, 18, 0, 8, 7, 9, 6, 10, 5, 11, 4, 12, 3, 13, 2, 14, 1, 15>>

\* `for i in 0..hclen { bl_tree[lengths_map[i]] = read_bits(3)? }`, from i on
RECURSIVE BlTreeLoop(_, _, _, _, _, _)
BlTreeLoop(s, p, b, i, hclen, bl_tree) ==
    IF i >= hclen THEN [ok |-> TRUE, pos |-> p, buffer |-> b, bl_tree |-> bl_tree]
    ELSE LET r == read_bits(s, p, b, 3) IN
         IF ~r.ok THEN [ok |-> FALSE, pos |-> r.pos, buffer |-> r.buffer, bl_tree |-> bl_tree]
         ELSE BlTreeLoop(s, r.pos, r.buffer, i + 1, hclen,
                         [bl_tree EXCEPT ![lengths_map[i + 1] + 1] = r.val.bits % 256])

\* line 46, once the HCLEN lengths are read
TreesHeaderMapper(hlit, hdist, bl, mapper) ==
    IF ~bl.ok
    THEN [res |-> "Err", err |-> "eof", pos |-> bl.pos, buffer |-> bl.buffer,
          hlit |-> 0, hdist |-> 0, mapper |-> EmptyMap, overflow |-> FALSE]
    ELSE [res |-> "Ok", err |-> "", pos |-> bl.pos, buffer |-> bl.buffer,
          hlit |-> hlit, hdist |-> hdist, mapper |-> mapper.map,
          overflow |-> mapper.overflow]

TreesHeaderErr(r) ==
    [res |-> "Err", err |-> "eof", pos |-> r.pos, buffer |-> r.buffer,
     hlit |-> 0, hdist |-> 0, mapper |-> EmptyMap, overflow |-> FALSE]

\* lines 36-46, once HCLEN is read
TreesHeaderHclen(s, hlit, hdist, r3, bl) ==
    IF ~r3.ok THEN TreesHeaderErr(r3)
    ELSE TreesHeaderMapper(hlit, hdist, bl, from_lengths("TreeCode", bl.bl_tree))

\* lines 35-36, once HDIST is read
TreesHeaderHdist(s, hlit, r2, r3) ==
    IF ~r2.ok THEN TreesHeaderErr(r2)
    ELSE TreesHeaderHclen(s, hlit, r2.val.bits + 1, r3,
                          BlTreeLoop(s, r3.pos, r3.buffer, 0, r3.val.bits + 4,
                                     [i \in 1..19 |-> 0]))

\* lines 34-35, once HLIT is read
TreesHeaderHlit(s, r1, r2) ==
    IF ~r1.ok THEN TreesHeaderErr(r1)
    ELSE TreesHeaderHdist(s, r1.val.bits + 257, r2, read_bits(s, r2.pos, r2.buffer, 4))

\* decode_litlen_distance_trees up to the table of the code length code
\* (lines 34-47): HLIT, HDIST, HCLEN, the HCLEN lengths, from_lengths
TreesHeaderFrom(s, r1) == TreesHeaderHlit(s, r1, read_bits(s, r1.pos, r1.buffer, 5))

TreesHeader(s, p, b) == TreesHeaderFrom(s, read_bits(s, p, b, 5))

\* Vec::resize(tokens.len() + n, value)
Resize(tokens, n, value) == tokens \o [i \in 1..n |-> value]

TokenResult(ok, err, r, tokens) ==
    [ok |-> ok, err |-> err, pos |-> r.pos, buffer |-> r.buffer, tokens |-> tokens]

\* the CopyPrev and RepeatZero arms, once the repeat count is read
TokenRepeat(t, x, tokens) ==
    IF ~x.ok THEN TokenResult(FALSE, "eof", x, tokens)
    ELSE TokenResult(TRUE, "", x,
                     IF t.kind = "CopyPrev"
                     THEN Resize(tokens, x.val.bits + 3, tokens[Len(tokens)])
                     ELSE Resize(tokens, x.val.bits + t.base, 0))

\* the match on the symbol t
TokenArm(s, sym, t, tokens) ==
    IF t.kind = "Length" THEN TokenResult(TRUE, "", sym, Append(tokens, t.value))
    ELSE IF t.kind = "CopyPrev" /\ tokens = <<>>
    THEN TokenResult(FALSE, "invalid tree", sym, tokens)
    ELSE TokenRepeat(t, read_bits(s, sym.pos, sym.buffer,
                                  IF t.kind = "CopyPrev" THEN 2 ELSE t.extra_bits),
                     tokens)

TokenSymbol(s, sym, tokens) ==
    IF ~sym.ok THEN TokenResult(FALSE, sym.err, sym, tokens)
    ELSE TokenArm(s, sym, TreeCodeToken(sym.val), tokens)

\* one iteration of `while tokens.len() < hlit + hdist` (lines 48-62): one
\* symbol of the code length code; a repeat may take tokens past hlit + hdist
TokenStep(mapper, s, p, b, tokens) == TokenSymbol(s, read_symbol(mapper, s, p, b), tokens)

\* the lengths the distance table is built from: <<0, 31, 1>> when the block
\* declares exactly one distance code of length 1 and no longer one
DistLengths(potential_dist_tree) ==
    LET count_one_length ==
            Cardinality({i \in 1..Len(potential_dist_tree) : potential_dist_tree[i] = 1})
        count_positive_length ==
            Cardinality({i \in 1..Len(potential_dist_tree) : potential_dist_tree[i] > 1})
    IN IF count_one_length = 1 /\ count_positive_length = 0 THEN <<0, 31, 1>>
       ELSE potential_dist_tree

\* decode_litlen_distance_trees after the loop (lines 63-90): the two tables;
\* res is "Ok", or "Panic" when from_lengths indexes past bl_count
TreesOf(litlen, dist) ==
    IF litlen.outcome = "Panic" \/ dist.outcome = "Panic"
    THEN [res |-> "Panic", err |-> "index out of bounds", litlen |-> EmptyMap,
          dist |-> EmptyMap, overflow |-> FALSE]
    ELSE [res |-> "Ok", err |-> "", litlen |-> litlen.map, dist |-> dist.map,
          overflow |-> litlen.overflow \/ dist.overflow]

TreesFromTokens(tokens, hlit) ==
    TreesOf(from_lengths("LitLen", SubSeq(tokens, 1, hlit)),
            from_lengths("Dist", DistLengths(SubSeq(tokens, hlit + 1, Len(tokens)))))

(***************************************************************************)
(* deflate.rs: DeflateReader::next_block                                   *)
(***************************************************************************)
BlockResult(res, err, r, dl, compression_type) ==
    [res |-> res, err |-> err, pos |-> r.pos, buffer |-> r.buffer, data_left |-> dl,
     compression_type |-> compression_type]

\* lines 52-80, once the two type bits are read
NextBlockType(dl, t) ==
    IF ~t.ok THEN BlockResult("Err", "eof", t, dl, 0)
    ELSE IF t.val.bits > 2 THEN BlockResult("Err", "unsupported block type", t, dl, 0)
    ELSE BlockResult("Ok", "", t, dl, t.val.bits)

\* lines 48-52, once the first bit is read: data_left is assigned at once
NextBlockFinal(s, dl, f) ==
    IF ~f.ok THEN BlockResult("Err", "eof", f, dl, 0)
    ELSE NextBlockType(f.val.bits = 0, read_bits(s, f.pos, f.buffer, 2))

\* next_block without the test of data_left
NextBlockAlways(s, p, b, dl) == NextBlockFinal(s, dl, read_bits(s, p, b, 1))

\* next_block with data_left = dl: res is "None", "Err" or "Ok"
next_block(s, p, b, dl) ==
    IF ~dl
    THEN [res |-> "None", err |-> "", pos |-> p, buffer |-> b, data_left |-> dl,
          compression_type |-> 0]
    ELSE NextBlockFinal(s, dl, read_bits(s, p, b, 1))

(***************************************************************************)
(* lib.rs: the parts of decompress                                         *)
(***************************************************************************)
\* `for _ in 0..len { writer.write_all(&[borrow_reader_from_boundary().read_u8()?])? }`
\* with n bytes still to copy; r is what write_all answered for the byte before p
RECURSIVE StoredCopyLoop(_, _, _, _)
StoredCopyWritten(s, p, r, n) ==
    IF ~r.ok THEN [res |-> "Err", err |-> "io", pos |-> p, w |-> r.w]
    ELSE StoredCopyLoop(s, p, r.w, n - 1)

StoredCopyLoop(s, p, w, n) ==
    IF n = 0 THEN [res |-> "Ok", err |-> "", pos |-> p, w |-> w]
    ELSE IF ~ReadU8(s, p).ok THEN [res |-> "Err", err |-> "eof", pos |-> p, w |-> w]
    ELSE StoredCopyWritten(s, p + 1, WriteAll(w, <<s[p + 1]>>), n)

\* !nlen in u16
NotU16(x) == (U16 - 1) - x

\* the stored block without `ensure!(len == !nlen)`
StoredLengthsUnchecked(s, w, len, nlen) ==
    IF ~len.ok THEN [res |-> "Err", err |-> "eof", pos |-> len.pos, w |-> w]
    ELSE IF ~nlen.ok THEN [res |-> "Err", err |-> "eof", pos |-> nlen.pos, w |-> w]
    ELSE StoredCopyLoop(s, nlen.pos, w, len.val[1] + (256 * len.val[2]))

\* lines 45-51, once LEN and NLEN are read
StoredLengths(s, w, len, nlen) ==
    IF ~len.ok THEN [res |-> "Err", err |-> "eof", pos |-> len.pos, w |-> w]
    ELSE IF ~nlen.ok THEN [res |-> "Err", err |-> "eof", pos |-> nlen.pos, w |-> w]
    ELSE IF len.val[1] + (256 * len.val[2]) # NotU16(nlen.val[1] + (256 * nlen.val[2]))
         THEN [res |-> "Err", err |-> "nlen check failed", pos |-> nlen.pos, w |-> w]
    ELSE StoredCopyLoop(s, nlen.pos, w, len.val[1] + (256 * len.val[2]))

\* the Uncompressed branch: LEN and NLEN through the borrowed source (the
\* buffered bits are dropped), the check, and the copy
StoredBlock(s, p, w) == StoredLengths(s, w, ReadExact(s, p, 2), ReadExact(s, p + 2, 2))

BodyResult(res, err, r, w) ==
    [res |-> res, err |-> err, pos |-> r.pos, buffer |-> r.buffer, w |-> w]

\* line 85, once write_previous has answered r; y is the last read
LengthArmCopy(y, r) ==
    IF r.res # "Ok" THEN BodyResult(r.res, r.err, y, r.w)
    ELSE BodyResult("Copy", "", y, r.w)

\* lines 83-85, once the extra bits y of the distance are read
LengthArmDistance(len, dist_token, y, w) ==
    IF ~y.ok THEN BodyResult("Err", "eof", y, w)
    ELSE LengthArmCopy(y, write_previous(w, dist_token.base + y.val.bits, len))

\* lines 78-84, once the distance symbol d is read
LengthArmSymbol(s, len, d, dist_token, w) ==
    IF ~d.ok THEN BodyResult("Err", d.err, d, w)
    ELSE LengthArmDistance(len, dist_token,
                           read_bits(s, d.pos, d.buffer, dist_token.extra_bits), w)

\* lines 76-78, once the extra bits x of the length are read
LengthArmLength(t, token, s, x, d, w) ==
    IF ~x.ok THEN BodyResult("Err", "eof", x, w)
    ELSE LengthArmSymbol(s, token.base + x.val.bits, d, DistanceToken(d.val), w)

\* the Length arm: the extra bits of the length, the distance symbol and its
\* extra bits, write_previous
LengthArmFrom(t, token, s, x, w) ==
    LengthArmLength(t, token, s, x, read_symbol(t.dist, s, x.pos, x.buffer), w)

LengthArm(t, token, s, p, b, w) ==
    LengthArmFrom(t, token, s, read_bits(s, p, b, token.extra_bits), w)

\* the Literal arm, once write_all has answered r
LiteralArm(sym, r) ==
    BodyResult(IF r.ok THEN "Literal" ELSE "Err", IF r.ok THEN "" ELSE "io", sym, r.w)

\* the match on the token
BodyArm(t, s, sym, token, w) ==
    IF token.kind = "Literal" THEN LiteralArm(sym, WriteAll(w, <<token.byte>>))
    ELSE IF token.kind = "EndOfBlock" THEN BodyResult("EndOfBlock", "", sym, w)
    ELSE LengthArm(t, token, s, sym.pos, sym.buffer, w)

BodySymbol(t, s, sym, w) ==
    IF ~sym.ok THEN BodyResult("Err", sym.err, sym, w)
    ELSE BodyArm(t, s, sym, LitLenToken(sym.val), w)

\* one iteration of the `loop` over the symbols of a compressed block: res is
\* "Literal", "Copy", "EndOfBlock", "Err" or "Panic"
BodyStep(t, s, p, b, w) == BodySymbol(t, s, read_symbol(t.litlen, s, p, b), w)

\* lines 76-78 alone: what reading the distance symbol answers after the
\* litlen symbol sym, once x, the extra bits of the length, are read; a
\* record that is not ok when the iteration reads no distance symbol
DistanceSymbolAfter(t, s, x) ==
    IF ~x.ok THEN SymbolResult(FALSE, "", 0, x)
    ELSE read_symbol(t.dist, s, x.pos, x.buffer)

DistanceSymbol(t, s, sym) ==
    IF ~sym.ok \/ sym.val <= 256 THEN SymbolResult(FALSE, "", 0, sym)
    ELSE DistanceSymbolAfter(t, s, read_bits(s, sym.pos, sym.buffer,
                                             LitLenToken(sym.val).extra_bits))

(***************************************************************************)
(* Reference encoder (RFC 1951, RFC 1952): the inputs of decompress are    *)
(* built from descriptions of members, so that what each input is (which   *)
(* members, which payloads, what is wrong with it) is known beforehand.    *)
(* A token is [kind |-> "lit", byte] or [kind |-> "copy", len, dist].      *)
(***************************************************************************)
Lit(b) == [kind |-> "lit", byte |-> b, len |-> 0, dist |-> 0]
Copy(l, d) == [kind |-> "copy", byte |-> 0, len |-> l, dist |-> d]

\* a token given by its symbols: the litlen symbol s and, when d >= 0, the
\* distance symbol d after it; every extra bit is 0. This writes the codes
\* of the symbols that stand for no token (286, 287, distance 30, 31).
Symbols(s, d) == [kind |-> "sym", byte |-> s, len |-> 0, dist |-> d]

BytesBits(bytes) == Flatten([i \in 1..Len(bytes) |-> LsbBits(bytes[i], 8)])

PadToByte(bits) == bits \o [i \in 1..((8 - (Len(bits) % 8)) % 8) |-> 0]

\* RFC 1951 3.2.5: the index of the length (distance) code whose range holds v
RangeIndex(base, v) ==
    CHOOSE i \in 1..Len(base) : base[i] <= v /\ (i = Len(base) \/ base[i + 1] > v)

EncToken(LL, DL, t) ==
    IF t.kind = "lit" THEN CodeBits(LL, t.byte)
    ELSE IF t.kind = "sym"
    THEN    CodeBits(LL, t.byte)
         \o (IF 257 <= t.byte /\ t.byte <= 285
             THEN LsbBits(0, LengthExtraBits[t.byte - 256]) ELSE <<>>)
         \o (IF t.dist >= 0 THEN CodeBits(DL, t.dist) ELSE <<>>)
         \o (IF 0 <= t.dist /\ t.dist <= 29
             THEN LsbBits(0, DistanceExtraBits[t.dist + 1]) ELSE <<>>)
    ELSE LET i == RangeIndex(LengthBase, t.len)
             j == RangeIndex(DistanceBase, t.dist)
         IN    CodeBits(LL, 256 + i)
            \o LsbBits(t.len - LengthBase[i], LengthExtraBits[i])
            \o CodeBits(DL, j - 1)
            \o LsbBits(t.dist - DistanceBase[j], DistanceExtraBits[j])

\* the tokens of a block, then the end-of-block symbol
EncTokens(LL, DL, tokens) ==
    Flatten([i \in 1..Len(tokens) |-> EncToken(LL, DL, tokens[i])]) \o CodeBits(LL, 256)

\* RFC 1951 3.2.7: the lengths a sequence of code length symbols stands for;
\* a symbol is [sym, extra]
RECURSIVE ExpandCl(_, _)
ExpandCl(out, cl) ==
    IF cl = <<>> THEN out
    ELSE LET c == Head(cl)
             more == IF c.sym <= 15 THEN <<c.sym>>
                     ELSE IF c.sym = 16 THEN [i \in 1..(3 + c.extra) |-> out[Len(out)]]
                     ELSE IF c.sym = 17 THEN [i \in 1..(3 + c.extra) |-> 0]
                     ELSE [i \in 1..(11 + c.extra) |-> 0]
         IN ExpandCl(out \o more, Tail(cl))

ClExtraBits(sym) == IF sym = 16 THEN 2 ELSE IF sym = 17 THEN 3 ELSE IF sym = 18 THEN 7 ELSE 0

ClOrder == <<16, 17, 18, 0, 8, 7, 9, 6, 10, 5, 11, 4, 12, 3, 13, 2, 14, 1, 15>>

\* a block [type, data, nlen_delta, tokens, hlit, hdist, cl, cltokens] as
\* bits after the bits `prefix`; final is its BFINAL bit
EncBlock(prefix, final, blk) ==
    IF blk.type = "stored"
    THEN    PadToByte(prefix \o <<final, 0, 0>>)
         \o BytesBits(   U16ToLe(Len(blk.data))
                      \o U16ToLe((65535 - Len(blk.data) + blk.nlen_delta) % 65536)
                      \o blk.data)
    ELSE IF blk.type = "fixed"
    THEN    prefix \o <<final, 1, 0>>
         \o EncTokens(FixedLitLenLengths, FixedDistLengths, blk.tokens)
    ELSE IF blk.type = "dynamic"
    THEN LET all == ExpandCl(<<>>, blk.cltokens)
             LL  == SubSeq(all, 1, blk.hlit)
             DL  == SubSeq(all, blk.hlit + 1, Len(all))
         IN    prefix \o <<final, 0, 1>>
            \o LsbBits(blk.hlit - 257, 5) \o LsbBits(blk.hdist - 1, 5) \o LsbBits(19 - 4, 4)
            \o Flatten([i \in 1..19 |-> LsbBits(blk.cl[ClOrder[i] + 1], 3)])
            \o Flatten([i \in 1..Len(blk.cltokens) |->
                           CodeBits(blk.cl, blk.cltokens[i].sym)
                        \o LsbBits(blk.cltokens[i].extra, ClExtraBits(blk.cltokens[i].sym))])
            \o EncTokens(LL, DL, blk.tokens)
    ELSE prefix \o <<final, 1, 1>>

RECURSIVE EncBlocks(_, _)
EncBlocks(prefix, blocks) ==
    IF blocks = <<>> THEN prefix
    ELSE EncBlocks(EncBlock(prefix, IF Len(blocks) = 1 THEN 1 ELSE 0, Head(blocks)),
                   Tail(blocks))

\* RFC 1952 2.3: the header [flg, id2, cm, extra, name, comment, hcrc]; hcrc
\* says what the CRC16 field holds when FLG.FHCRC is set: the right value
\* ("good"), the right value plus one ("bad"), or the CRC of the header
\* bytes followed by one more 0 ("nul")
EncHeader(h) ==
    LET raw ==    <<31, h.id2, h.cm, h.flg, 1, 2, 3, 4, 2, 3>>
               \o (IF BitOf(h.flg, 2) = 1 THEN U16ToLe(Len(h.extra)) \o h.extra ELSE <<>>)
               \o (IF BitOf(h.flg, 3) = 1 THEN h.name \o <<0>> ELSE <<>>)
               \o (IF BitOf(h.flg, 4) = 1 THEN h.comment \o <<0>> ELSE <<>>)
        crc == IF h.hcrc = "good" THEN Crc32(raw).r
               ELSE IF h.hcrc = "bad" THEN (Crc32(raw).r + 1) % 65536
               ELSE Crc32(raw \o <<0>>).r
    IN raw \o (IF BitOf(h.flg, 1) = 1 THEN U16ToLe(crc) ELSE <<>>)

\* RFC 1952 2.3.1: CRC32 and ISIZE of the payload; trailer is "good",
\* "bad_crc" (CRC32 with its lowest bit flipped) or "bad_isize" (ISIZE + 1)
EncTrailer(payload, trailer) ==
    LET crc == Crc32(payload)
        n   == WideOfNat(Len(payload))
    IN    U32ToLe(IF trailer = "bad_crc" THEN WideXor(crc, Wide(0, 1)) ELSE crc)
       \o U32ToLe(IF trailer = "bad_isize" THEN WideAdd(n, 1) ELSE n)

\* a member [header, body, trailer], body = [blocks, valid, payload]
EncMember(m) ==
       EncHeader(m.header)
    \o PackBits(EncBlocks(<<>>, m.body.blocks))
    \o EncTrailer(m.body.payload, m.trailer)

(***************************************************************************)
(* The members the inputs are made of.                                     *)
(***************************************************************************)
Block(type, data, nlen_delta, tokens, hlit, hdist, cl, cltokens) ==
    [type |-> type, data |-> data, nlen_delta |-> nlen_delta, tokens |-> tokens,
     hlit |-> hlit, hdist |-> hdist, cl |-> cl, cltokens |-> cltokens]

Stored(data) == Block("stored", data, 0, <<>>, 0, 0, <<>>, <<>>)
StoredBadNlen(data) == Block("stored", data, 1, <<>>, 0, 0, <<>>, <<>>)
Fixed(tokens) == Block("fixed", <<>>, 0, tokens, 0, 0, <<>>, <<>>)
Dynamic(hlit, hdist, cl, cltokens, tokens) ==
    Block("dynamic", <<>>, 0, tokens, hlit, hdist, cl, cltokens)
ReservedType == Block("reserved", <<>>, 0, <<>>, 0, 0, <<>>, <<>>)

Cl(sym, extra) == [sym |-> sym, extra |-> extra]

\* lengths of the code length code, by symbol 0..18: `one` gets 1 bit, `two`
\* (a set of two symbols) 2 bits each
ClLengths(one, two) ==
    [i \in 1..19 |-> IF i - 1 = one THEN 1 ELSE IF i - 1 \in two THEN 2 ELSE 0]

\* literals only: 'a' and end-of-block with 1 bit each, and one distance
\* code of zero bits (RFC 1951: no distance codes are used)
DynLiterals ==
    Dynamic(257, 1, ClLengths(18, {0, 1}),
            <<Cl(18, 86), Cl(1, 0), Cl(18, 127), Cl(18, 9), Cl(1, 0), Cl(0, 0)>>,
            <<Lit(97), Lit(97)>>)

\* one distance code, of one bit (RFC 1951: "If only one distance code is
\* used, it is encoded using one bit, not zero bits")
DynOneDistance ==
    Dynamic(258, 1, ClLengths(18, {1, 2}),
            <<Cl(18, 86), Cl(1, 0), Cl(18, 127), Cl(18, 9), Cl(2, 0), Cl(2, 0), Cl(1, 0)>>,
            <<Lit(97), Copy(3, 1)>>)

\* two distance codes of one bit
DynTwoDistances ==
    Dynamic(258, 2, ClLengths(2, {1, 18}),
            <<Cl(18, 86), Cl(2, 0), Cl(2, 0), Cl(18, 127), Cl(18, 8), Cl(2, 0), Cl(2, 0),
              Cl(1, 0), Cl(1, 0)>>,
            <<Lit(97), Lit(98), Copy(3, 2)>>)

\* three distance codes declared, and a last repeat of 11 zeros where one
\* length is left: 271 lengths for HLIT + HDIST = 261 (RFC 1951 gives the
\* code lengths as exactly HLIT + HDIST values; zlib refuses the block)
DynOvershoot ==
    Dynamic(258, 3, ClLengths(2, {1, 18}),
            <<Cl(18, 86), Cl(2, 0), Cl(2, 0), Cl(18, 127), Cl(18, 8), Cl(2, 0), Cl(2, 0),
              Cl(1, 0), Cl(1, 0), Cl(18, 0)>>,
            <<Lit(97), Lit(98), Copy(3, 2)>>)

Body(blocks, valid, payload) == [blocks |-> blocks, valid |-> valid, payload |-> payload]

ValidBodies ==
    {Body(<<Stored(<<>>)>>, TRUE, <<>>),
     Body(<<Stored(<<97, 98>>)>>, TRUE, <<97, 98>>),
     Body(<<Fixed(<<Lit(97)>>)>>, TRUE, <<97>>),
     Body(<<Fixed(<<Lit(97), Copy(3, 1)>>)>>, TRUE, <<97, 97, 97, 97>>),
     Body(<<Fixed(<<Lit(200), Copy(12, 1)>>)>>, TRUE, [i \in 1..13 |-> 200]),
     Body(<<Stored(<<97>>), Fixed(<<Lit(98), Copy(3, 2)>>)>>, TRUE, <<97, 98, 97, 98, 97>>),
     Body(<<DynLiterals>>, TRUE, <<97, 97>>),
     Body(<<DynOneDistance>>, TRUE, <<97, 97, 97, 97>>),
     Body(<<DynTwoDistances>>, TRUE, <<97, 98, 97, 98, 97>>)}

\* a stored block whose NLEN is not the complement of LEN, the reserved
\* block type, and a distance that reaches before the first byte
InvalidBodies ==
    {Body(<<StoredBadNlen(<<97>>)>>, FALSE, <<97>>),
     Body(<<ReservedType>>, FALSE, <<>>),
     Body(<<Fixed(<<Lit(97), Copy(3, 2)>>)>>, FALSE, <<97>>)}

Header(flg, id2, cm, extra, name, comment, hcrc) ==
    [flg |-> flg, id2 |-> id2, cm |-> cm, extra |-> extra, name |-> name,
     comment |-> comment, hcrc |-> hcrc]

\* RFC 1952: the magic, CM = 8, no reserved flag set, and a CRC16 that is
\* right when there is one
HeaderValid(h) ==
    /\ h.id2 = 139 /\ h.cm = 8
    /\ h.flg < 32
    /\ BitOf(h.flg, 1) = 1 => h.hcrc = "good"

\* headers with every flag alone, FHCRC with each other field, all fields
\* together, and an ISO 8859-1 name (0xE9) as RFC 1952 allows
StdHeader(flg) == Header(flg, 139, 8, <<65, 66, 1, 0, 7>>, <<110>>, <<99, 100>>, "good")

ValidHeaders ==
    {StdHeader(flg) : flg \in {0, 1, 2, 4, 8, 16, 3, 6, 10, 18, 31}}
    \cup {Header(8, 139, 8, <<>>, <<233>>, <<>>, "good")}

\* a wrong magic, an unknown method, each reserved flag, and CRC16 fields
\* that do not hold the CRC of the header
InvalidHeaders ==
    {Header(0, 140, 8, <<>>, <<>>, <<>>, "good"),
     Header(0, 139, 7, <<>>, <<>>, <<>>, "good")}
    \cup {Header(flg, 139, 8, <<>>, <<110>>, <<>>, "good") : flg \in {32, 64, 128, 34, 40}}
    \cup {Header(flg, 139, 8, <<65, 66, 0, 0>>, <<110>>, <<99>>, hcrc) :
             flg \in {2, 6, 10}, hcrc \in {"bad", "nul"}}

Member(header, body, trailer) == [header |-> header, body |-> body, trailer |-> trailer]

MemberValid(m) == HeaderValid(m.header) /\ m.body.valid /\ m.trailer = "good"

(***************************************************************************)
(* The inputs of decompress: [members, keep, tail, room, full]. The source *)
(* holds the first `keep` bytes (all of them when keep < 0) of the members *)
(* followed by `tail`; the sink has room for `room` bytes.                 *)
(***************************************************************************)
SinkRoom == 32

Trailers == {"good", "bad_crc", "bad_isize"}

Input(members, keep, tail, room, full) ==
    [members |-> members, keep |-> keep, tail |-> tail, room |-> room, full |-> full]

StoredAb == Body(<<Stored(<<97, 98>>)>>, TRUE, <<97, 98>>)
FixedAaaa == Body(<<Fixed(<<Lit(97), Copy(3, 1)>>)>>, TRUE, <<97, 97, 97, 97>>)
FixedA == Body(<<Fixed(<<Lit(97)>>)>>, TRUE, <<97>>)
FixedFar == Body(<<Fixed(<<Lit(97), Copy(3, 2)>>)>>, FALSE, <<97>>)
DynAbaba == Body(<<DynTwoDistances>>, TRUE, <<97, 98, 97, 98, 97>>)
DynAaaa == Body(<<DynOneDistance>>, TRUE, <<97, 97, 97, 97>>)

\* every header with every body and every trailer, as the only member
SingleInputs ==
    {Input(<<Member(h, b, t)>>, -1, <<>>, SinkRoom, "err") :
        h \in ValidHeaders \cup InvalidHeaders,
        b \in ValidBodies \cup InvalidBodies,
        t \in Trailers}

\* a valid member followed by a second member
PairInputs ==
    {Input(<<Member(StdHeader(h1), b1, "good"), Member(h2, b2, t)>>, -1, <<>>, SinkRoom, "err") :
        h1 \in {0, 4},
        b1 \in {StoredAb, FixedAaaa, DynAbaba},
        h2 \in {StdHeader(0), StdHeader(8), StdHeader(2), StdHeader(6),
                Header(32, 139, 8, <<>>, <<>>, <<>>, "good"),
                Header(2, 139, 8, <<>>, <<>>, <<>>, "bad"),
                Header(8, 139, 8, <<>>, <<233>>, <<>>, "good")},
        b2 \in {StoredAb, FixedAaaa, FixedFar, DynAaaa},
        t \in Trailers}

\* the sequences of members of which every proper prefix is an input
TruncatedBases ==
    {<<Member(StdHeader(31), StoredAb, "good")>>,
     <<Member(StdHeader(2), DynAbaba, "good")>>,
     <<Member(StdHeader(0), FixedAaaa, "good"), Member(StdHeader(24), FixedA, "good")>>,
     <<Member(StdHeader(0), StoredAb, "good"), Member(StdHeader(6), StoredAb, "good")>>}

MembersBytes(ms) == Flatten([k \in 1..Len(ms) |-> EncMember(ms[k])])

TruncatedInputs ==
    UNION {{Input(ms, k, <<>>, SinkRoom, "err") : k \in 0..(Len(MembersBytes(ms)) - 1)} :
              ms \in TruncatedBases}

\* no member at all, and valid members followed by bytes that are no member
TailInputs ==
    {Input(ms, -1, tail, SinkRoom, "err") :
        ms \in {<<>>, <<Member(StdHeader(0), StoredAb, "good")>>},
        tail \in {<<>>, <<0>>, <<31>>, <<0, 0>>, <<31, 139>>, <<31, 139, 8>>}}

\* sinks that run out of room, answering Ok(0) or an error
FullSinkInputs ==
    {Input(<<Member(StdHeader(0), b, "good")>>, -1, <<>>, room, full) :
        b \in {StoredAb, FixedAaaa, DynAbaba}, room \in 0..2, full \in {"zero", "err"}}

\* stored blocks behind compressed blocks, so that the header of the stored
\* block starts inside a byte (at bit 2 after 18 bits) or runs over two bytes
\* (at bit 6 after 30 bits), with NLEN right and wrong
StoredAfterBodies ==
    {Body(<<Fixed(<<Lit(97)>>), Stored(<<98, 99>>)>>, TRUE, <<97, 98, 99>>),
     Body(<<Fixed(<<Lit(97), Copy(3, 1)>>), Stored(<<98>>), Fixed(<<Lit(99)>>)>>, TRUE,
          <<97, 97, 97, 97, 98, 99>>),
     Body(<<Fixed(<<Lit(97)>>), StoredBadNlen(<<98, 99>>)>>, FALSE, <<97>>),
     Body(<<Fixed(<<Lit(97), Copy(3, 1)>>), StoredBadNlen(<<98>>)>>, FALSE,
          <<97, 97, 97, 97>>)}

StoredAfterInputs ==
    {Input(<<Member(StdHeader(0), b, "good")>>, -1, <<>>, SinkRoom, "err") :
        b \in StoredAfterBodies}

\* a dynamic block whose code lengths run past HLIT + HDIST
OvershootInputs ==
    {Input(<<Member(StdHeader(0), Body(<<DynOvershoot>>, FALSE, <<97, 98, 97, 98, 97>>), t)>>,
           -1, <<>>, SinkRoom, "err") : t \in Trailers}

\* fixed blocks that between them hold the fixed code of every litlen symbol
\* and of every distance symbol: the literals 32 to a block, every length
\* symbol at its base length, every distance symbol at its base distance,
\* and the symbols 286, 287 and the distance symbols 30, 31
FixedSymbolBodies ==
    {Body(<<Fixed([i \in 1..32 |-> Lit(32 * k + i - 1)])>>, TRUE,
          [i \in 1..32 |-> 32 * k + i - 1]) : k \in 0..7}
    \cup {Body(<<Fixed(<<Lit(97), Copy(LengthBase[i], 1)>>)>>, TRUE,
               [j \in 1..(LengthBase[i] + 1) |-> 97]) : i \in 1..Len(LengthBase)}
    \cup {Body(<<Fixed(<<Lit(97), Copy(3, DistanceBase[j])>>)>>, FALSE, <<97>>) :
              j \in 2..Len(DistanceBase)}
    \cup {Body(<<Fixed(<<Lit(97), Symbols(s, -1)>>)>>, FALSE, <<97>>) : s \in {286, 287}}
    \cup {Body(<<Fixed(<<Lit(97), Symbols(257, d)>>)>>, FALSE, <<97>>) : d \in {30, 31}}

\* whole, and cut 1, 2 and 3 bytes into the block
FixedSymbolInputs ==
    {Input(<<Member(StdHeader(0), b, "good")>>, -1, <<>>, SinkRoom, "err") :
        b \in FixedSymbolBodies}
    \cup {Input(<<Member(StdHeader(0),
                         Body(<<Fixed(<<Symbols(s, d)>>)>>, FALSE, <<>>), "good")>>,
                k, <<>>, SinkRoom, "err") :
              s \in {286, 257}, d \in {-1, 30}, k \in 11..13}

Inputs ==
    SingleInputs \cup PairInputs \cup TruncatedInputs \cup TailInputs \cup FullSinkInputs
    \cup StoredAfterInputs \cup OvershootInputs \cup FixedSymbolInputs

(***************************************************************************)
(* Spec: decompress(input, output) on every input of Inputs. pc is the     *)
(* place in decompress: "header" (the `while let` over read_header),       *)
(* "next_block" (the `while let` over next_block), "stored", "fixed",      *)
(* "dynamic" (the three kinds of block), "tokens" (the while loop of       *)
(* decode_litlen_distance_trees, whose locals hlit, hdist, mapper and      *)
(* tokens are kept in trees meanwhile), "body" (the `loop` over the        *)
(* symbols), "footer", and "done" once decompress has returned or          *)
(* panicked; result is then "Ok", "Err" or "Panic".                        *)
(* meta keeps what the input was built from, and counts the members begun  *)
(* (headers accepted) and checked (footers accepted).                      *)
(***************************************************************************)
InitInput(inp, n, lens, hdrs, all, intr) ==
    /\ stream = SubSeq(all, 1, IF inp.keep < 0 THEN Len(all) ELSE inp.keep)
    /\ meta = [members      |-> inp.members,
               starts       |-> [k \in 1..n |-> SeqSum(SubSeq(lens, 1, k - 1))],
               hdr_ends     |-> [k \in 1..n |-> SeqSum(SubSeq(lens, 1, k - 1)) + hdrs[k]],
               ends         |-> [k \in 1..n |-> SeqSum(SubSeq(lens, 1, k))],
               whole        |-> inp.keep < 0 /\ inp.tail = <<>>,
               room         |-> inp.room,
               member_start |-> 0,
               begun        |-> 0,
               checked      |-> 0,
               intr         |-> intr,
               retries      |-> 0]
    /\ inner = [bytes |-> <<>>, room |-> inp.room, full |-> inp.full]
    /\ pos = 0
    /\ buffer = EmptyBits
    /\ data_left = TRUE
    /\ trees = NoTrees
    /\ buf = <<>>
    /\ bytes_counter = WideOfNat(0)
    /\ crc_digest = CrcDigestNew
    /\ pc = "header"
    /\ result = "running"
    /\ ev = NoEvent

Init ==
    \E inp \in Inputs :
    \E enc \in {[k \in 1..Len(inp.members) |-> EncMember(inp.members[k])]} :
        InitInput(inp, Len(inp.members),
                  [k \in 1..Len(inp.members) |-> Len(enc[k])],
                  [k \in 1..Len(inp.members) |-> Len(EncHeader(inp.members[k].header))],
                  Flatten(enc) \o inp.tail, FALSE)

\* decompress returns (res is "Ok" or "Err") or panics
Return(res) == pc' = "done" /\ result' = res

\* lib.rs 27-35: read_header; None ends the loop and decompress returns Ok;
\* otherwise the member's writer is made, `member?` returns the header's
\* error, an unknown method is an error, and the bit reader and the deflate
\* reader of the member are made
D_ReadHeader ==
    /\ pc = "header"
    /\ \E r \in {read_header(stream, pos)} :
       /\ pos' = r.pos
       /\ ev' = [op |-> "read_header", outcome |-> r.outcome, err |-> r.err,
                 pos0 |-> pos, flg |-> r.flg, header |-> r.header,
                 sink0 |-> inner.bytes]
       /\ IF r.outcome = "None"
          THEN /\ Return("Ok")
               /\ UNCHANGED <<inner, buf, bytes_counter, crc_digest, buffer, data_left, meta>>
          ELSE IF r.outcome = "Panic"
          THEN /\ Return("Panic")
               /\ UNCHANGED <<inner, buf, bytes_counter, crc_digest, buffer, data_left, meta>>
          ELSE /\ SetWriter(TrackingWriterNew(inner, buf))
               /\ IF r.outcome = "Err" \/ r.header.compression_method # CM_DEFLATE
                  THEN /\ Return("Err")
                       /\ UNCHANGED <<buffer, data_left, meta>>
                  ELSE /\ buffer' = EmptyBits
                       /\ data_left' = TRUE
                       /\ pc' = "next_block"
                       /\ meta' = [meta EXCEPT !.member_start = Len(inner.bytes),
                                               !.begun = meta.begun + 1]
                       /\ UNCHANGED result
    /\ UNCHANGED <<stream, trees>>

\* lib.rs 37-38: next_block; None leaves the loop over the blocks
D_NextBlock ==
    /\ pc = "next_block"
    /\ \E r \in {next_block(stream, pos, buffer, data_left)} :
       /\ pos' = r.pos
       /\ buffer' = r.buffer
       /\ data_left' = r.data_left
       /\ ev' = [op |-> "next_block", res |-> r.res, err |-> r.err,
                 compression_type |-> r.compression_type,
                 pos0 |-> pos, buffer0 |-> buffer, data_left0 |-> data_left]
       /\ IF r.res = "Err" THEN Return("Err")
          ELSE /\ pc' = IF r.res = "None" THEN "footer"
                        ELSE IF r.compression_type = 0 THEN "stored"
                        ELSE IF r.compression_type = 1 THEN "fixed"
                        ELSE "dynamic"
               /\ UNCHANGED result
    /\ UNCHANGED <<stream, trees, inner, buf, bytes_counter, crc_digest, meta>>

\* lib.rs 39-54: an Uncompressed block
D_Stored ==
    /\ pc = "stored"
    /\ \E r \in {StoredBlock(stream, pos, Writer)} :
       /\ pos' = r.pos
       /\ buffer' = borrow_reader_from_boundary(buffer)
       /\ SetWriter(r.w)
       /\ ev' = [op |-> "stored", res |-> r.res, err |-> r.err, before |-> Before,
                 pos0 |-> pos, buffer0 |-> buffer]
       /\ IF r.res = "Ok" THEN pc' = "next_block" /\ UNCHANGED result
          ELSE Return(r.res)
    /\ UNCHANGED <<stream, data_left, trees, meta>>

\* lib.rs 56-59: get_fixed_tree()?
D_FixedTree ==
    /\ pc = "fixed"
    /\ trees' = get_fixed_tree
    /\ pc' = "body"
    /\ ev' = [op |-> "get_fixed_tree", res |-> "Ok", err |-> ""]
    /\ UNCHANGED <<stream, pos, buffer, data_left, inner, buf, bytes_counter,
                   crc_digest, result, meta>>

\* lib.rs 60-63, decode_litlen_distance_trees(cur_reader)?, up to its while
\* loop. A u16 addition that overflows in from_lengths panics in a build
\* with overflow checks and wraps in one without.
D_TreesHeader ==
    /\ pc = "dynamic"
    /\ \E r \in {TreesHeader(stream, pos, buffer)} :
       \E checks \in IF r.overflow THEN BOOLEAN ELSE {FALSE} :
           /\ pos' = r.pos
           /\ buffer' = r.buffer
           /\ ev' = [op |-> "trees_header", res |-> IF checks THEN "Panic" ELSE r.res,
                     err |-> r.err]
           /\ IF checks THEN Return("Panic") /\ UNCHANGED trees
              ELSE IF r.res = "Ok"
              THEN /\ trees' = [litlen |-> EmptyMap, dist |-> EmptyMap, mapper |-> r.mapper,
                                hlit |-> r.hlit, hdist |-> r.hdist, tokens |-> <<>>]
                   /\ pc' = "tokens"
                   /\ UNCHANGED result
              ELSE Return(r.res) /\ UNCHANGED trees
    /\ UNCHANGED <<stream, data_left, inner, buf, bytes_counter, crc_digest, meta>>

\* one iteration of the while loop of decode_litlen_distance_trees
D_TreeToken ==
    /\ pc = "tokens"
    /\ Len(trees.tokens) < trees.hlit + trees.hdist
    /\ \E r \in {TokenStep(trees.mapper, stream, pos, buffer, trees.tokens)} :
       /\ pos' = r.pos
       /\ buffer' = r.buffer
       /\ trees' = [trees EXCEPT !.tokens = r.tokens]
       /\ ev' = [op |-> "tree_token", res |-> IF r.ok THEN "Ok" ELSE "Err", err |-> r.err,
                 tokens0 |-> trees.tokens]
       /\ IF r.ok THEN UNCHANGED <<pc, result>> ELSE Return("Err")
    /\ UNCHANGED <<stream, data_left, inner, buf, bytes_counter, crc_digest, meta>>

\* decode_litlen_distance_trees after its while loop: the two tables
D_DynamicTrees ==
    /\ pc = "tokens"
    /\ Len(trees.tokens) >= trees.hlit + trees.hdist
    /\ \E r \in {TreesFromTokens(trees.tokens, trees.hlit)} :
       \E checks \in IF r.overflow THEN BOOLEAN ELSE {FALSE} :
           /\ ev' = [op |-> "dynamic_trees", res |-> IF checks THEN "Panic" ELSE r.res,
                     err |-> r.err, tokens0 |-> trees.tokens, hlit |-> trees.hlit,
                     hdist |-> trees.hdist]
           /\ IF checks \/ r.res = "Panic" THEN Return("Panic") /\ UNCHANGED trees
              ELSE /\ trees' = [litlen |-> r.litlen, dist |-> r.dist]
                   /\ pc' = "body"
                   /\ UNCHANGED result
    /\ UNCHANGED <<stream, pos, buffer, data_left, inner, buf, bytes_counter,
                   crc_digest, meta>>

\* lib.rs 67-92: one iteration of the loop over the symbols of the block
D_Body ==
    /\ pc = "body"
    /\ \E r \in {BodyStep(trees, stream, pos, buffer, Writer)},
          sym \in {read_symbol(trees.litlen, stream, pos, buffer)} :
       /\ pos' = r.pos
       /\ buffer' = r.buffer
       /\ SetWriter(r.w)
       /\ ev' = [op |-> "body", res |-> r.res, err |-> r.err, before |-> Before,
                 pos0 |-> pos, buffer0 |-> buffer,
                 fixed |-> (\/ ev.op = "get_fixed_tree"
                            \/ (ev.op \in {"body", "interrupted"} /\ ev.fixed)),
                 sym |-> sym, dsym |-> DistanceSymbol(trees, stream, sym)]
       /\ IF r.res \in {"Literal", "Copy"} THEN UNCHANGED <<pc, result>>
          ELSE IF r.res = "EndOfBlock" THEN pc' = "next_block" /\ UNCHANGED result
          ELSE Return(r.res)
    /\ UNCHANGED <<stream, data_left, trees, meta>>

\* lib.rs 95-104: read_footer from the byte source under the bit reader,
\* then the length check and the CRC check
\* lib.rs 98-104: the error of the footer f against the writer w, "" for none
FooterCheck(f, w) ==
    IF ~f.ok THEN "eof"
    ELSE IF f.data_size # byte_count(w) THEN "length check failed"
    ELSE IF f.data_crc32 # crc32(w) THEN "crc32 check failed"
    ELSE ""

D_Footer ==
    /\ pc = "footer"
    /\ \E f \in {read_footer(stream, pos)} :
       \E err \in {FooterCheck(f, Writer)} :
       /\ pos' = f.pos
       /\ ev' = [op |-> "footer", res |-> IF err = "" THEN "Ok" ELSE "Err", err |-> err,
                 pos0 |-> pos, data_crc32 |-> f.data_crc32, data_size |-> f.data_size]
       /\ IF err = ""
          THEN /\ pc' = "header"
               /\ meta' = [meta EXCEPT !.checked = meta.checked + 1]
               /\ UNCHANGED result
          ELSE Return("Err") /\ UNCHANGED meta
    /\ UNCHANGED <<stream, buffer, data_left, trees, inner, buf, bytes_counter,
                   crc_digest>>

Next ==
    \/ D_ReadHeader
    \/ D_NextBlock
    \/ D_Stored
    \/ D_FixedTree
    \/ D_TreesHeader
    \/ D_TreeToken
    \/ D_DynamicTrees
    \/ D_Body
    \/ D_Footer

Spec == Init /\ [][Next]_vars

(***************************************************************************)
(* What the input of a run was built from, for the properties below.       *)
(***************************************************************************)
NumMembers == Len(meta.members)

\* X1 ++ ... ++ Xk
PayloadsUpTo(k) == Flatten([i \in 1..k |-> meta.members[i].body.payload])

\* the source holds members 1..k-1, all valid, and then all of member k
WholeUpTo(k) ==
    /\ k \in 1..NumMembers
    /\ meta.ends[k] <= Len(stream)
    /\ \A i \in 1..(k - 1) : MemberValid(meta.members[i])

\* the input is a concatenation of valid members, and the sink has room
\* for every byte of their payloads
ValidInput ==
    /\ meta.whole
    /\ \A k \in 1..NumMembers : MemberValid(meta.members[k])
    /\ meta.room >= Len(PayloadsUpTo(NumMembers))

\* C1: for every input that is a concatenation of k >= 0 valid members and a
\* sink that accepts every byte, decompress returns Ok and the sink has
\* received exactly X1 ++ ... ++ Xk.
C1_Counterexample ==
    (pc = "done" /\ ValidInput)
        => (result = "Ok" /\ inner.bytes = PayloadsUpTo(NumMembers))

\* the bytes the sink has received for the member being read
EmittedForMember == SubSeq(inner.bytes, meta.member_start + 1, Len(inner.bytes))

\* C5: decompress returns Ok only if the footer of every member holds the
\* CRC-32 and the number of the bytes emitted for that member, and a member
\* with valid DEFLATE data whose CRC32 or ISIZE trailer differs makes
\* decompress return an error.
C5_Counterexample ==
    /\ (ev.op = "footer" /\ ev.res = "Ok")
           => /\ ev.data_crc32 = Crc32(EmittedForMember)
              /\ ev.data_size = WideOfNat(Len(EmittedForMember))
    /\ (pc = "done" /\ result = "Ok") => meta.checked = meta.begun
    /\ \A k \in 1..NumMembers :
           (/\ pc = "done"
            /\ WholeUpTo(k)
            /\ meta.room >= Len(PayloadsUpTo(k))
            /\ HeaderValid(meta.members[k].header)
            /\ meta.members[k].body.valid
            /\ meta.members[k].trailer # "good")
               => result = "Err"

\* the source ends inside the header of member k, after its first byte
TruncatedInHeader(k) ==
    /\ k \in 1..NumMembers
    /\ \A i \in 1..(k - 1) : MemberValid(meta.members[i])
    /\ meta.starts[k] < Len(stream)
    /\ Len(stream) < meta.hdr_ends[k]

\* C8: if the source ends after the first byte of a member header and before
\* the header is complete, decompress returns an error value, neither Ok nor
\* a panic; only end of input before the first byte of a member header ends
\* decompress with Ok.
C8_Counterexample ==
    /\ (pc = "done" /\ \E k \in 1..NumMembers : TruncatedInHeader(k)) => result = "Err"
    /\ (pc = "done" /\ result = "Ok")
           => (ev.op = "read_header" /\ ev.pos0 = Len(stream))

\* read_header has just run on the complete header of member k, which has
\* FHCRC set and the magic right
ReadHeaderWithCrc(k) ==
    /\ k \in 1..NumMembers
    /\ ev.op = "read_header"
    /\ ev.pos0 = meta.starts[k]
    /\ meta.hdr_ends[k] <= Len(stream)
    /\ meta.members[k].header.id2 = ID2
    /\ BitOf(meta.members[k].header.flg, FHCRC_OFFSET) = 1

\* the 16-bit value stored in the CRC field of the header of member k
StoredCrc16(k) == stream[meta.hdr_ends[k] - 1] + (256 * stream[meta.hdr_ends[k]])

\* the low 16 bits of the CRC-32 of the raw header bytes before the CRC field
RawCrc16(k) == Crc32(SubSeq(stream, meta.starts[k] + 1, meta.hdr_ends[k] - 2)).r

\* C9: a header with FHCRC set is accepted if and only if the stored 16-bit
\* value equals the low 16 bits of the CRC-32 of exactly the raw header bytes
\* consumed before the CRC field.
C9_Counterexample ==
    \A k \in 1..NumMembers :
        ReadHeaderWithCrc(k) => ((ev.outcome = "Ok") <=> (StoredCrc16(k) = RawCrc16(k)))

\* C10: a member header whose FLG byte has a reserved bit (5, 6 or 7) set is
\* rejected: decompress returns an error and emits no byte of that member.
C10_Counterexample ==
    \A k \in 1..NumMembers :
        (/\ pc = "done"
         /\ WholeUpTo(k)
         /\ meta.members[k].header.id2 = ID2
         /\ meta.members[k].header.flg >= 32)
            => (result = "Err" /\ inner.bytes = PayloadsUpTo(k - 1))

(***************************************************************************)
(* SpecLarge: decompress resumed inside a member that has already emitted  *)
(* 2^32 - short bytes. The state is one decompress is in after a stored    *)
(* block of that member: pc is "next_block", no bit is buffered, the       *)
(* counter holds the number of bytes, the window their last HISTORY_SIZE   *)
(* bytes. Every value of the CRC register is the register after some       *)
(* sequence of that many bytes ending in the window's bytes (four free     *)
(* bytes before the window reach every register value), so that crc0 may   *)
(* be any value. stream holds the rest of the source: the member's last    *)
(* blocks, which emit RestPayload, and its footer with the CRC-32 of all   *)
(* the member's bytes and ISIZE = n mod 2^32, or that plus one. inner      *)
(* holds the bytes the sink has received since the resumption.             *)
(* bytes_counter is a usize, of 64 bits: it does not wrap at 2^32.         *)
(***************************************************************************)
RestBlocks ==
    <<Stored(<<97, 98>>), Fixed(<<Lit(97), Copy(3, 1)>>), DynTwoDistances>>

RestPayload == <<97, 98, 97, 97, 97, 97, 97, 98, 97, 98, 97>>

\* how many bytes short of 2^32 the member is at the resumption
Shorts == {1, 5, 11, 12, 20}

\* n mod 2^32
WideMod32(v) == Wide(v.q % U16, v.r)

LargeFooter(crc0, count0, trailer) ==
       U32ToLe(CrcFinalize(CrcUpdate(crc0, RestPayload)))
    \o U32ToLe(WideMod32(WideAdd(WideAdd(count0, Len(RestPayload)),
                                 IF trailer = "bad_isize" THEN 1 ELSE 0)))

InitLargeFrom(crc0, count0, trailer) ==
    /\ stream = PackBits(EncBlocks(<<>>, RestBlocks)) \o LargeFooter(crc0, count0, trailer)
    /\ meta = [members |-> <<>>, starts |-> <<>>, hdr_ends |-> <<>>, ends |-> <<>>,
               whole |-> TRUE, room |-> SinkRoom, member_start |-> 0, begun |-> 1,
               checked |-> 0, crc0 |-> crc0, count0 |-> count0]
    /\ inner = [bytes |-> <<>>, room |-> SinkRoom, full |-> "err"]
    /\ pos = 0
    /\ buffer = EmptyBits
    /\ data_left = TRUE
    /\ trees = NoTrees
    /\ buf = [i \in 1..HISTORY_SIZE |-> 120 + i]
    /\ bytes_counter = count0
    /\ crc_digest = crc0
    /\ pc = "next_block"
    /\ result = "running"
    /\ ev = NoEvent

InitLarge ==
    \E short \in Shorts, trailer \in {"good", "bad_isize"},
       crc0 \in {CrcDigestNew, Wide(4660, 22136)} :
        InitLargeFrom(crc0, Wide(U16 - 1, U16 - short), trailer)

SpecLarge == InitLarge /\ [][Next]_vars

\* the footer has just been read for a member that emitted n >= 2^32 bytes,
\* and holds the CRC-32 of those bytes and n mod 2^32
LargeFooterRead ==
    /\ ev.op = "footer"
    /\ ev.pos0 + 8 <= Len(stream)
    /\ WideAdd(meta.count0, Len(inner.bytes)).q >= U16
    /\ ev.data_size = WideMod32(WideAdd(meta.count0, Len(inner.bytes)))
    /\ ev.data_crc32 = CrcFinalize(CrcUpdate(meta.crc0, inner.bytes))

\* C6: a member that emits n >= 2^32 bytes and carries ISIZE = n mod 2^32
\* and a correct CRC32 is accepted, not rejected with a length error.
C6_Counterexample == LargeFooterRead => ev.res = "Ok"

(***************************************************************************)
(* Stored blocks (lib.rs 39-54), in Spec.                                  *)
(***************************************************************************)
\* u16::from_le_bytes of the two bytes of the source after the first p
U16At(p) == stream[p + 1] + (256 * stream[p + 2])

\* the bytes the sink received during the step the event is of
EmittedInStep == SubSeq(inner.bytes, Len(ev.before.sink0) + 1, Len(inner.bytes))

\* C13: for a stored block the bits left in the byte of the last header bit
\* are dropped (they are fewer than 8: no unread byte is dropped), LEN and
\* NLEN are the four bytes after that byte; if LEN is not the complement of
\* NLEN decompress returns an error and emits no byte of the block; otherwise
\* exactly the LEN bytes that follow are emitted unchanged and the next block
\* header starts at the byte after them.
C13_StoredBlock ==
    /\ pc = "stored" => buffer.len < 8
    /\ (ev.op = "stored" /\ ev.pos0 + 4 <= Len(stream)) =>
           /\ ev.buffer0.len < 8
           /\ SubSeq(inner.bytes, 1, Len(ev.before.sink0)) = ev.before.sink0
           /\ IF U16At(ev.pos0) # (U16 - 1) - U16At(ev.pos0 + 2)
              THEN /\ pc = "done" /\ result = "Err"
                   /\ EmittedInStep = <<>>
              ELSE (/\ ev.pos0 + 4 + U16At(ev.pos0) <= Len(stream)
                    /\ ev.before.room0 >= U16At(ev.pos0)) =>
                       /\ ev.res = "Ok" /\ pc = "next_block"
                       /\ EmittedInStep
                              = SubSeq(stream, ev.pos0 + 5, ev.pos0 + 4 + U16At(ev.pos0))
                       /\ pos = ev.pos0 + 4 + U16At(ev.pos0)
                       /\ buffer = EmptyBits

\* a stored block of at least one byte copied after its header left bits of
\* a byte unread
C13_Witness ==
    /\ ev.op = "stored" /\ ev.res = "Ok"
    /\ ev.buffer0.len > 0
    /\ EmittedInStep # <<>>

(***************************************************************************)
(* Dynamic blocks (huffman_coding.rs 31-91), in Spec.                      *)
(***************************************************************************)
\* C16: if a repeat token makes the sequence of code lengths longer than
\* HLIT + HDIST, decoding fails with an error; on success the litlen table is
\* built from exactly HLIT lengths and the distance table from exactly HDIST
\* lengths.
C16_Counterexample ==
    /\ (ev.op = "tree_token" /\ Len(trees.tokens) > trees.hlit + trees.hdist)
           => (ev.res = "Err" /\ result = "Err")
    /\ (ev.op = "dynamic_trees" /\ ev.res = "Ok")
           => Len(ev.tokens0) - ev.hlit = ev.hdist

\* the distance code lengths of the block whose tables were just built
DistPart == SubSeq(ev.tokens0, ev.hlit + 1, Len(ev.tokens0))

\* the distance symbols that have a code of one bit
OneBitDistances == {d \in 0..(Len(DistPart) - 1) : DistPart[d + 1] = 1}

\* C17: when the distance code lengths hold exactly one length 1 and no other
\* non-zero length, decode_litlen_distance_trees returns, without failing or
\* aborting, a distance table in which the one-bit code 0 decodes to that
\* distance symbol.
C17_Counterexample ==
    (/\ ev.op = "dynamic_trees"
     /\ Cardinality(OneBitDistances) = 1
     /\ \A i \in 1..Len(DistPart) : DistPart[i] <= 1) =>
        /\ ev.res = "Ok"
        /\ BitSequenceNew(0, 1) \in DOMAIN trees.dist
        /\ trees.dist[BitSequenceNew(0, 1)] \in OneBitDistances

(***************************************************************************)
(* Code-length vectors that define no code (huffman_coding.rs 433-465), in *)
(* SpecHuffman.                                                            *)
(***************************************************************************)
OverSubscribed(L) == KraftScaled(L) > Pow2(MAX_BITS)

\* the symbols of the vector that from_lengths gives a code to
CodedSymbols ==
    {x \in 0..(Len(meta.lengths) - 1) :
        meta.lengths[x + 1] > 0 /\ TryFromOk(meta.alphabet, x)}

\* C18: from_lengths on an over-subscribed vector of lengths in 0..15 reports
\* an error (it neither panics nor returns a table), and a table it returns
\* never has two symbols under the same (code, length) pair: every coded
\* symbol has its own key.
C18_Counterexample ==
    /\ (ev.op = "from_lengths" /\ OverSubscribed(meta.lengths))
           => (~ev.ok /\ result # "Panic")
    /\ (ev.op = "from_lengths" /\ ev.ok)
           => Cardinality(DOMAIN trees.litlen) = Cardinality(CodedSymbols)

(***************************************************************************)
(* Fixed blocks (huffman_coding.rs 11-29, 420-431, 449-462), in Spec.      *)
(***************************************************************************)
\* RFC 1951 3.2.6: the fixed code of every litlen and distance symbol, as
\* bits in stream order
FixedLitLenCodes == [s \in 0..287 |-> CodeBits(FixedLitLenLengths, s)]
FixedDistCodes == [d \in 0..31 |-> CodeBits(FixedDistLengths, d)]

\* the source holds `bits` from its bit k on (bits taken from the least
\* significant end of each byte)
StreamHas(k, bits) ==
    /\ k + Len(bits) <= 8 * Len(stream)
    /\ \A i \in 1..Len(bits) : UnpackBit(stream, k + i - 1) = bits[i]

\* the step ended decompress with an error and gave nothing to the sink
FailedWithoutToken ==
    /\ ev.res = "Err" /\ pc = "done" /\ result = "Err"
    /\ inner.bytes = ev.before.sink0

\* the bit of the source at which the iteration started, and the bit behind
\* the litlen symbol s and its extra bits
BodyBit == 8 * ev.pos0 - ev.buffer0.len
DistanceBit(s) == BodyBit + Len(FixedLitLenCodes[s]) + LitLenToken(s).extra_bits

\* C19: in a fixed block, when the bits at the reader are the RFC 1951 fixed
\* code of a litlen symbol, the symbol read is that symbol if it is 0..285,
\* and decompress returns an error without producing a token if it is 286 or
\* 287; the same for the bits behind a length symbol and its extra bits,
\* with the distance symbols 0..29 and 30, 31.
C19_FixedCodes ==
    (ev.op = "body" /\ ev.fixed) =>
        /\ \A s \in 0..287 : StreamHas(BodyBit, FixedLitLenCodes[s]) =>
               IF s <= 285 THEN ev.sym.ok /\ ev.sym.val = s
               ELSE ~ev.sym.ok /\ FailedWithoutToken
        /\ \A s \in 257..285, d \in 0..31 :
               (/\ StreamHas(BodyBit, FixedLitLenCodes[s])
                /\ StreamHas(DistanceBit(s), FixedDistCodes[d])) =>
                   IF d <= 29 THEN ev.dsym.ok /\ ev.dsym.val = d
                   ELSE ~ev.dsym.ok /\ FailedWithoutToken

\* the code of distance symbol 30 behind a length symbol ended decompress
C19_Witness ==
    /\ ev.op = "body" /\ ev.fixed
    /\ StreamHas(BodyBit, FixedLitLenCodes[257])
    /\ StreamHas(DistanceBit(257), FixedDistCodes[30])
    /\ ev.sym.ok /\ ev.sym.val = 257
    /\ ev.err = "undefined symbol"
    /\ result = "Err"
    /\ inner.bytes = <<97>>

(***************************************************************************)
(* The blocks of a member and its footer (deflate.rs 43-81, lib.rs 37-96), *)
(* in Spec.                                                                *)
(***************************************************************************)
\* the member being read, and where its footer starts in the source: the
\* blocks are padded to a whole byte and the 8 bytes of the footer follow
CurrentMember == meta.members[meta.begun]
FooterStart == meta.ends[meta.begun] - 8

\* C20: a block header is read only while no block with BFINAL = 1 has been
\* read, and its BFINAL bit decides whether another is; after the final
\* block next_block returns None without consuming input, and would on any
\* later call; the footer is the 8 bytes of the source from the first byte
\* boundary behind the last bit of the final block, CRC32 then ISIZE.
C20_FinalBlock ==
    /\ (ev.op = "next_block" /\ ev.res # "None") =>
           /\ ev.data_left0
           /\ ev.res = "Ok" =>
                  data_left = (UnpackBit(stream, 8 * ev.pos0 - ev.buffer0.len) = 0)
    /\ (ev.op = "next_block" /\ ev.res = "None") =>
           /\ ~ev.data_left0 /\ ~data_left
           /\ pos = ev.pos0 /\ buffer = ev.buffer0
           /\ next_block(stream, pos, buffer, data_left).res = "None"
           /\ buffer.len < 8
           /\ pc = "footer"
           /\ (CurrentMember.body.valid /\ meta.ends[meta.begun] <= Len(stream))
                  => pos = FooterStart
    /\ (ev.op = "footer") =>
           /\ (CurrentMember.body.valid /\ meta.ends[meta.begun] <= Len(stream))
                  => ev.pos0 = FooterStart
           /\ ev.pos0 + 8 <= Len(stream) =>
                  /\ ev.err # "eof"
                  /\ ev.data_crc32 = U32FromLe(SubSeq(stream, ev.pos0 + 1, ev.pos0 + 4))
                  /\ ev.data_size = U32FromLe(SubSeq(stream, ev.pos0 + 5, ev.pos0 + 8))
                  /\ pos = ev.pos0 + 8

\* the footer of a member of three blocks, read behind bits of the last
\* byte of the final block that belong to no block
C20_Witness ==
    /\ ev.op = "footer" /\ ev.res = "Ok"
    /\ Len(CurrentMember.body.blocks) = 3
    /\ buffer.len > 0
    /\ ev.pos0 = FooterStart
    /\ ev.data_size = WideOfNat(6)

(***************************************************************************)
(* SpecLive: decompress over a sink that may answer a write with           *)
(* ErrorKind::Interrupted. write_all (lib.rs 50 and 71, through            *)
(* std::io::Write) calls write again after that answer, as often as the    *)
(* sink gives it; TrackingWriter::write hands the error through            *)
(* (tracking_writer.rs 37). decompress is one sequential computation: a    *)
(* step that can be taken is taken, which is the fairness of SpecLive.     *)
(***************************************************************************)
\* the step at pc starts with a write_all of one byte: the first byte of a
\* stored block whose LEN and NLEN agree, or a literal
StoredWritesNext(len, nlen) ==
    /\ len.ok /\ nlen.ok
    /\ len.val[1] + (256 * len.val[2]) = NotU16(nlen.val[1] + (256 * nlen.val[2]))
    /\ len.val[1] + (256 * len.val[2]) > 0
    /\ ReadU8(stream, nlen.pos).ok

LiteralNext(sym) == sym.ok /\ sym.val < 256

WriteAllStarts ==
    \/ pc = "stored" /\ StoredWritesNext(ReadExact(stream, pos, 2), ReadExact(stream, pos + 2, 2))
    \/ pc = "body" /\ LiteralNext(read_symbol(trees.litlen, stream, pos, buffer))

\* write_all, the sink answering Interrupted: nothing is written and nothing
\* is read, and write_all calls write again. retries is 0 until the first
\* such answer and then alternates between 1 and 2.
D_Interrupted ==
    /\ pc \in {"stored", "body"}
    /\ meta.intr
    /\ WriteAllStarts
    /\ meta' = [meta EXCEPT !.retries = IF meta.retries = 1 THEN 2 ELSE 1]
    /\ ev' = [op |-> "interrupted", res |-> "Interrupted", err |-> "",
              fixed |-> (pc = "body" /\ ev.op \in {"get_fixed_tree", "body", "interrupted"}
                         /\ (ev.op = "get_fixed_tree" \/ ev.fixed))]
    /\ UNCHANGED <<stream, pos, buffer, data_left, trees, inner, buf, bytes_counter,
                   crc_digest, pc, result>>

\* inputs of every kind: whole members, members cut at every byte, tails,
\* sinks without room, blocks of every type
LiveInputs ==
    {Input(<<Member(StdHeader(flg), b, t)>>, -1, <<>>, SinkRoom, "err") :
        flg \in {0, 31}, b \in ValidBodies \cup InvalidBodies, t \in Trailers}
    \cup {Input(<<Member(StdHeader(0), b1, "good"), Member(StdHeader(8), b2, t)>>,
                -1, <<>>, SinkRoom, "err") :
             b1 \in {StoredAb, FixedAaaa}, b2 \in {StoredAb, FixedFar}, t \in Trailers}
    \cup TruncatedInputs \cup TailInputs \cup FullSinkInputs \cup StoredAfterInputs
    \cup OvershootInputs

InitLive ==
    \E inp \in LiveInputs, intr \in BOOLEAN :
    \E enc \in {[k \in 1..Len(inp.members) |-> EncMember(inp.members[k])]} :
        /\ InitInput(inp, Len(inp.members),
                     [k \in 1..Len(inp.members) |-> Len(enc[k])],
                     [k \in 1..Len(inp.members) |-> Len(EncHeader(inp.members[k].header))],
                     Flatten(enc) \o inp.tail, intr)

NextLive ==
    \/ D_ReadHeader
    \/ D_NextBlock
    \/ D_Stored
    \/ D_FixedTree
    \/ D_TreesHeader
    \/ D_TreeToken
    \/ D_DynamicTrees
    \/ D_Body
    \/ D_Footer
    \/ D_Interrupted

SpecLive == InitLive /\ [][NextLive]_vars /\ WF_vars(NextLive)

\* the bits of the source that the reader has used up
Consumed == (8 * pos) - buffer.len

\* an iteration of the member loop (a header read), of the block loop (a
\* block header read, and the stored block behind it), of the code-length
\* loop and of the symbol loop consumes at least one bit, or is the last
\* step of decompress
IterationReads ==
    (\/ ev'.op \in {"read_header", "stored", "tree_token", "body"}
     \/ (ev'.op = "next_block" /\ ev'.res # "None")) =>
        (Consumed' > Consumed \/ pc' = "done")

\* decompress has returned or panicked
Finished == pc = "done"

\* what is left to do: nothing once decompress has finished; otherwise the
\* bits of the input not yet consumed, and, between two reads, the one step
\* that reads nothing (building the tables of a block, leaving the loop
\* over the blocks). Rank is a natural number, so a run in which every step
\* lowers it has finitely many steps.
StepsBeforeReading == IF pc \in {"next_block", "fixed", "tokens"} THEN 1 ELSE 0
Rank == IF Finished THEN 0
        ELSE 1 + StepsBeforeReading + (2 * ((8 * Len(stream)) - Consumed))

====
